---- MODULE Spec2Model ----
(***************************************************************************)
(* A model of the client-side search engine (js/util/searchEngine.js), of  *)
(* the VirtualScroller and the request deduplication of                    *)
(* js/util/performanceOptimizer.js, and of the request tokens that guard   *)
(* the comments/results fetches (js/ui/commentsResults.js,                 *)
(* js/ui/renderPromptBlock.js).                                            *)
(*                                                                         *)
(* JavaScript values are records of one shape, [t, s, n, a]: t is the      *)
(* type tag, s the characters of a string, n a number, a the elements of   *)
(* an array of strings.  A string is a sequence of one-character strings.  *)
(***************************************************************************)
EXTENDS Integers, Sequences, FiniteSets, TLC

VARIABLES
  searchCache,   \* the module-level Map, as the sequence of its entries in insertion order
  call,          \* the arguments of the search() call being made
  ret,           \* what that call returned (or that it threw)
  lastOp,        \* the exported function called last
  scroller,      \* the fields of the VirtualScroller
  container,     \* its container element: scroll position, height, children, listener
  rafQueue,      \* how many callbacks given to requestAnimationFrame have not run yet
  vsCall,        \* the VirtualScroller operation that ran last, with its argument
  vsThrew,       \* whether that operation was left by an exception
  vsLog,         \* the changes its render() pass made to the container's child list, in order
  destroyed,     \* whether destroy() was called
  windowIds,     \* window.__commentsResultsRequestId and window.__promptBlockRequestId
  containers,    \* the containers given to renderCommentsResults: token and content
  blocks,        \* the blocks made by renderPromptBlock: token, results, comments
  inflight,      \* the comments/results fetches that have not finished
  ongoingRequests, \* the module-level Map of deduplicateRequest: key -> promise
  promises,      \* the promises deduplicateRequest made, with the work behind each
  calls,         \* the deduplicateRequest calls made, with what each got back
  fnCall,        \* a call of levenshteinDistance or termMatches: arguments and result
  lruCache,      \* the Map of the LRUCache, as the sequence of its entries in insertion order
  lruCapacity,   \* the capacity the LRUCache was made with
  lruCall,       \* the LRUCache method called last, with its arguments and result
  lruUses,       \* the keys held by the LRUCache, from the least to the most recently used
  batch,         \* createBatchRequester's batch: the submissions waiting for the timer
  timeoutId,     \* its timer: the ticks left until it fires, or NoTimer
  submitted,     \* the items given to the requester, with the promise each call got
  dispatched,    \* the batchProcessorFn calls made, with what each came to
  promptList,    \* the children of the #prompt-list element, in document order
  listeners,     \* the renderPrompts() calls whose handlers are attached to #prompt-list
  renders,       \* the renderPrompts() calls made: parameters, fetch, filtered result
  windowApp,     \* window.app.filteredPrompts
  clicked,       \* the last click on a prompt block, with the events it dispatched
  endpoint,      \* the flat-file endpoint the POST requests go to
  directory,     \* the names of the data file and of its .tmp file: the inode of each
  inodes,        \* the content of each inode made so far
  posts          \* the POST requests: position, what was read, open handle, response

searchVars == <<searchCache, call, ret, lastOp>>
vsVars == <<scroller, container, rafQueue, vsCall, vsThrew, vsLog, destroyed>>
fetchVars == <<windowIds, containers, blocks, inflight>>
dedupVars == <<ongoingRequests, promises, calls>>
wordVars == <<fnCall>>
lruVars == <<lruCache, lruCapacity, lruCall, lruUses>>
batchVars == <<batch, timeoutId, submitted, dispatched>>
listVars == <<promptList, listeners, renders, windowApp, clicked>>
postVars == <<endpoint, directory, inodes, posts>>

\* What the operations of one part leave alone
nonSearchVars == <<vsVars, fetchVars, dedupVars, wordVars, lruVars, batchVars, listVars, postVars>>
nonScrollerVars == <<searchVars, fetchVars, dedupVars, wordVars, lruVars, batchVars, listVars, postVars>>
nonFetchVars == <<searchVars, vsVars, dedupVars, wordVars, lruVars, batchVars, listVars, postVars>>
nonDedupVars == <<searchVars, vsVars, fetchVars, wordVars, lruVars, batchVars, listVars, postVars>>
nonWordVars == <<searchVars, vsVars, fetchVars, dedupVars, lruVars, batchVars, listVars, postVars>>
nonLruVars == <<searchVars, vsVars, fetchVars, dedupVars, wordVars, batchVars, listVars, postVars>>
nonBatchVars == <<searchVars, vsVars, fetchVars, dedupVars, wordVars, lruVars, listVars, postVars>>
nonListVars == <<searchVars, vsVars, fetchVars, dedupVars, wordVars, lruVars, batchVars, postVars>>
nonPostVars == <<searchVars, vsVars, fetchVars, dedupVars, wordVars, lruVars, batchVars, listVars>>

-----------------------------------------------------------------------------
(* JavaScript values *)

Undef == [t |-> "undefined", s |-> <<>>, n |-> 0, a |-> <<>>]
Str(x) == [t |-> "string", s |-> x, n |-> 0, a |-> <<>>]
Num(k) == [t |-> "number", s |-> <<>>, n |-> k, a |-> <<>>]
Arr(x) == [t |-> "array", s |-> <<>>, n |-> 0, a |-> x]

\* ToBoolean: what `v && ...`, `!v` and `v || w` test.
Truthy(v) ==
  CASE v.t = "undefined" -> FALSE
    [] v.t = "string" -> v.s # <<>>
    [] v.t = "number" -> v.n # 0
    [] OTHER -> TRUE

\* a || b
OrElse(v, w) == IF Truthy(v) THEN v ELSE w

-----------------------------------------------------------------------------
(* Strings *)

LowerChar(c) ==
  CASE c = "A" -> "a"
    [] c = "B" -> "b"
    [] c = "C" -> "c"
    [] OTHER -> c

toLowerCase(s) == [i \in 1..Len(s) |-> LowerChar(s[i])]

\* \w of a regular expression: [A-Za-z0-9_]
IsWordChar(c) ==
  c \in {"a", "b", "c", "z", "A", "B", "C", "_", "0", "1", "2", "3", "4", "5", "6", "7", "8", "9"}

\* \s of a regular expression
IsSpaceChar(c) == c \in {" ", "\t"}

\* text.replace(/[^\w\s]/g, '')
stripPunctuation(s) == SelectSeq(s, LAMBDA c : IsWordChar(c) \/ IsSpaceChar(c))

\* The index of the first whitespace character of s, Len(s) + 1 when it has none.
RECURSIVE firstSpace(_, _)
firstSpace(s, i) ==
  IF i > Len(s) THEN i
  ELSE IF IsSpaceChar(s[i]) THEN i
  ELSE firstSpace(s, i + 1)

\* text.split(/\s+/).filter(Boolean): the maximal runs of non-whitespace.
RECURSIVE splitWhitespace(_)
splitWhitespace(s) ==
  IF s = <<>> THEN <<>>
  ELSE IF IsSpaceChar(Head(s)) THEN splitWhitespace(Tail(s))
  ELSE LET e == firstSpace(s, 1)
       IN  <<SubSeq(s, 1, e - 1)>> \o splitWhitespace(SubSeq(s, e, Len(s)))

\* array.join(' ')
RECURSIVE joinSpace(_)
joinSpace(ss) ==
  IF ss = <<>> THEN <<>>
  ELSE IF Len(ss) = 1 THEN ss[1]
  ELSE ss[1] \o <<" ">> \o joinSpace(Tail(ss))

\* text.includes(sub)
includes(text, sub) ==
  \E i \in 0..(Len(text) - Len(sub)) : SubSeq(text, i + 1, i + Len(sub)) = sub

\* text.trim()
RECURSIVE trimStart(_)
trimStart(s) ==
  IF s # <<>> /\ IsSpaceChar(Head(s)) THEN trimStart(Tail(s)) ELSE s

RECURSIVE trimEnd(_)
trimEnd(s) ==
  IF s # <<>> /\ IsSpaceChar(s[Len(s)]) THEN trimEnd(SubSeq(s, 1, Len(s) - 1)) ELSE s

trim(s) == trimEnd(trimStart(s))

Min2(x, y) == IF x <= y THEN x ELSE y
Max2(x, y) == IF x >= y THEN x ELSE y

-----------------------------------------------------------------------------
(* searchEngine.js: configuration *)

\* SCORE_THRESHOLD = 0.1, in tenths (scores are compared as 10 * score).
SCORE_THRESHOLD_TENTHS == 1
FUZZY_MATCH_THRESHOLD == 2
CACHE_MAX_SIZE == 100

-----------------------------------------------------------------------------
(* searchEngine.js: helpers *)

\* tokenizeAndNormalize(text), text a JavaScript value
tokenizeAndNormalize(text) ==
  IF ~Truthy(text) \/ text.t # "string" THEN <<>>
  ELSE splitWhitespace(stripPunctuation(toLowerCase(text.s)))

\* One row of the matrix: track[j][0..s1Len] from track[j-1], as a sequence
\* whose element i + 1 is track[j][i].
RECURSIVE levenshteinRow(_, _, _, _, _)
levenshteinRow(s1, s2, j, prev, acc) ==
  LET i == Len(acc)
  IN  IF i > Len(s1) THEN acc
      ELSE LET indicator == IF s1[i] = s2[j] THEN 0 ELSE 1
               cell == Min2(Min2(acc[i] + 1, prev[i + 1] + 1), prev[i] + indicator)
           IN  levenshteinRow(s1, s2, j, prev, Append(acc, cell))

RECURSIVE levenshteinRows(_, _, _, _)
levenshteinRows(s1, s2, j, prev) ==
  IF j > Len(s2) THEN prev
  ELSE levenshteinRows(s1, s2, j + 1, levenshteinRow(s1, s2, j, prev, <<j>>))

\* levenshteinDistance reading track[s2Len][s1Len - 1] at the end
levenshteinDistanceOffByOne(s1, s2) ==
  IF s1 = s2 THEN 0
  ELSE IF s1 = <<>> THEN Len(s2)
  ELSE IF s2 = <<>> THEN Len(s1)
  ELSE levenshteinRows(s1, s2, 1, [i \in 1..(Len(s1) + 1) |-> i - 1])[Len(s1)]

\* levenshteinDistance(s1, s2), s1 and s2 strings
levenshteinDistance(s1, s2) ==
  IF s1 = s2 THEN 0
  ELSE IF s1 = <<>> THEN Len(s2)
  ELSE IF s2 = <<>> THEN Len(s1)
  ELSE levenshteinRows(s1, s2, 1, [i \in 1..(Len(s1) + 1) |-> i - 1])[Len(s1) + 1]

\* termMatches that, with fuzzy on, only looks for a distance below the threshold
termMatchesStrictThreshold(term, textTokens, fuzzy, fuzzyThreshold) ==
  IF fuzzy
  THEN \E k \in 1..Len(textTokens) :
         levenshteinDistance(term, textTokens[k]) < fuzzyThreshold
  ELSE \E k \in 1..Len(textTokens) : textTokens[k] = term

\* termMatches(term, textTokens, fuzzy, fuzzyThreshold)
termMatches(term, textTokens, fuzzy, fuzzyThreshold) ==
  IF \E k \in 1..Len(textTokens) : textTokens[k] = term THEN TRUE
  ELSE IF fuzzy
       THEN \E k \in 1..Len(textTokens) :
              levenshteinDistance(term, textTokens[k]) <= fuzzyThreshold
       ELSE FALSE

\* checkPhrase(text) of calculateScore: "throw" when text is truthy and has no
\* toLowerCase method (a TypeError), else whether the lower-cased text holds the phrase.
checkPhrase(text, fullQueryString) ==
  IF ~Truthy(text) THEN "false"
  ELSE IF text.t # "string" THEN "throw"
  ELSE IF includes(toLowerCase(text.s), fullQueryString) THEN "true"
  ELSE "false"

\* The phrase bonus of calculateScore: [threw, bonus].
phraseBonus(prompt, fullQueryString) ==
  IF Len(fullQueryString) = 0 THEN [threw |-> FALSE, bonus |-> 0]
  ELSE LET t == checkPhrase(prompt.title, fullQueryString)
       IN  IF t = "throw" THEN [threw |-> TRUE, bonus |-> 0]
           ELSE IF t = "true" THEN [threw |-> FALSE, bonus |-> 20]
           ELSE LET d == checkPhrase(prompt.description, fullQueryString)
                IN  IF d = "throw" THEN [threw |-> TRUE, bonus |-> 0]
                    ELSE IF d = "true" THEN [threw |-> FALSE, bonus |-> 15]
                    ELSE LET c == checkPhrase(prompt.content, fullQueryString)
                         IN  IF c = "throw" THEN [threw |-> TRUE, bonus |-> 0]
                             ELSE IF c = "true" THEN [threw |-> FALSE, bonus |-> 10]
                             ELSE [threw |-> FALSE, bonus |-> 0]

\* promptFieldTokens of calculateScore
promptFieldTokens(prompt) ==
  [title |-> tokenizeAndNormalize(prompt.title),
   description |-> tokenizeAndNormalize(prompt.description),
   content |-> tokenizeAndNormalize(prompt.content),
   tags |-> IF prompt.tags.t = "array"
            THEN tokenizeAndNormalize(Str(joinSpace(prompt.tags.a)))
            ELSE <<>>]

\* prompt.tags && prompt.tags.length > 0
hasTags(prompt) ==
  /\ Truthy(prompt.tags)
  /\ CASE prompt.tags.t = "array" -> Len(prompt.tags.a) > 0
       [] prompt.tags.t = "string" -> Len(prompt.tags.s) > 0
       [] OTHER -> FALSE

\* What one query token adds to the score in the forEach of calculateScore.
tokenScore(prompt, ft, queryToken, fuzzy) ==
    (IF Truthy(prompt.title) /\ termMatches(queryToken, ft.title, fuzzy, FUZZY_MATCH_THRESHOLD)
     THEN 10 ELSE 0)
  + (IF Truthy(prompt.description) /\ termMatches(queryToken, ft.description, fuzzy, FUZZY_MATCH_THRESHOLD)
     THEN 5 ELSE 0)
  + (IF Truthy(prompt.content) /\ termMatches(queryToken, ft.content, fuzzy, FUZZY_MATCH_THRESHOLD)
     THEN 3 ELSE 0)
  + (IF hasTags(prompt) /\ termMatches(queryToken, ft.tags, fuzzy, FUZZY_MATCH_THRESHOLD)
     THEN 7 ELSE 0)

RECURSIVE sumTokenScores(_, _, _, _, _)
sumTokenScores(prompt, ft, queryTokens, fuzzy, k) ==
  IF k > Len(queryTokens) THEN 0
  ELSE tokenScore(prompt, ft, queryTokens[k], fuzzy)
       + sumTokenScores(prompt, ft, queryTokens, fuzzy, k + 1)

\* matchedQueryTerms of calculateScore
matchedQueryTerms(prompt, queryTokens, fuzzy) ==
  LET ft == promptFieldTokens(prompt)
  IN  {queryTokens[k] : k \in {j \in 1..Len(queryTokens) :
                                 tokenScore(prompt, ft, queryTokens[j], fuzzy) > 0}}

\* calculateScore adding the coverage bonus once for every matching field
calculateScorePerFieldCoverage(prompt, queryTokens, fuzzy) ==
  LET ft == promptFieldTokens(prompt)
      fields == sumTokenScores(prompt, ft, queryTokens, fuzzy, 1)
      matches == {<<k, f>> \in (1..Len(queryTokens)) \X {"title", "description", "content", "tags"} :
                    /\ f = "tags" => hasTags(prompt)
                    /\ f # "tags" => Truthy(prompt[f])
                    /\ termMatches(queryTokens[k], ft[f], fuzzy, FUZZY_MATCH_THRESHOLD)}
      phrase == phraseBonus(prompt, joinSpace(queryTokens))
  IN  [threw |-> phrase.threw, score |-> fields + Cardinality(matches) * 5 + phrase.bonus]

\* calculateScore(prompt, queryTokens, fuzzy): [threw, score]
calculateScore(prompt, queryTokens, fuzzy) ==
  LET ft == promptFieldTokens(prompt)
      fields == sumTokenScores(prompt, ft, queryTokens, fuzzy, 1)
      coverage == Cardinality(matchedQueryTerms(prompt, queryTokens, fuzzy)) * 5
      phrase == phraseBonus(prompt, joinSpace(queryTokens))
  IN  [threw |-> phrase.threw, score |-> fields + coverage + phrase.bonus]

-----------------------------------------------------------------------------
(* Dates.  A date text is one day digit, optionally followed by "n" for noon:   *)
(* "2" is day 2 at 00:00 and "2n" day 2 at 12:00; any other text does not parse. *)
(* Times are milliseconds; the local time zone is UTC.                          *)

DigitChars == {"0", "1", "2", "3", "4", "5", "6", "7", "8", "9"}

DigitValue(c) ==
  CASE c = "0" -> 0 [] c = "1" -> 1 [] c = "2" -> 2 [] c = "3" -> 3 [] c = "4" -> 4
    [] c = "5" -> 5 [] c = "6" -> 6 [] c = "7" -> 7 [] c = "8" -> 8 [] OTHER -> 9

InvalidDate == [valid |-> FALSE, t |-> 0]

\* Date.parse(text)
parseDate(s) ==
  IF Len(s) = 1 /\ s[1] \in DigitChars
  THEN [valid |-> TRUE, t |-> DigitValue(s[1]) * 86400000]
  ELSE IF Len(s) = 2 /\ s[1] \in DigitChars /\ s[2] = "n"
  THEN [valid |-> TRUE, t |-> DigitValue(s[1]) * 86400000 + 43200000]
  ELSE InvalidDate

\* new Date(v): [valid, t], valid = FALSE for an Invalid Date (getTime() is NaN)
newDate(v) ==
  CASE v.t = "string" -> parseDate(v.s)
    [] v.t = "number" -> [valid |-> TRUE, t |-> v.n]
    [] v.t = "array" -> IF Len(v.a) = 1 THEN parseDate(v.a[1]) ELSE InvalidDate
    [] OTHER -> InvalidDate

\* date.setHours(23, 59, 59, 999)
endOfDay(t) == (t \div 86400000) * 86400000 + 86399999

-----------------------------------------------------------------------------
(* searchEngine.js: applyFilters *)

NoRange == [present |-> FALSE, startDate |-> Undef, endDate |-> Undef]
Range(s, e) == [present |-> TRUE, startDate |-> s, endDate |-> e]

\* Object.keys(filters).length > 0
hasKeys(filters) ==
  \/ filters.category.t # "undefined" \/ filters.tags.t # "undefined"
  \/ filters.dateRange.present
  \/ filters.json = "throws"

\* filters.category && typeof filters.category === 'string'
categoryActive(filters) == Truthy(filters.category) /\ filters.category.t = "string"

\* p.category === filters.category
categoryPasses(p, filters) ==
  p.category.t = "string" /\ p.category.s = filters.category.s

\* filters.tags && Array.isArray(filters.tags) && filters.tags.length > 0
tagsActive(filters) == filters.tags.t = "array" /\ Len(filters.tags.a) > 0

\* The tags test with some() in place of every()
tagsPassAny(p, filters) ==
  IF ~Truthy(p.tags) \/ p.tags.t # "array" THEN FALSE
  ELSE \E i \in 1..Len(filters.tags.a) :
         \E j \in 1..Len(p.tags.a) : p.tags.a[j] = filters.tags.a[i]

\* The test of the tags filter on one prompt (lines 175-178)
tagsPass(p, filters) ==
  IF ~Truthy(p.tags) \/ p.tags.t # "array" THEN FALSE
  ELSE \A i \in 1..Len(filters.tags.a) :
         \E j \in 1..Len(p.tags.a) : p.tags.a[j] = filters.tags.a[i]

\* start (or end) of applyFilters: the parsed bound, valid = FALSE for null
rangeBound(d) == IF Truthy(d) /\ newDate(d).valid THEN newDate(d) ELSE InvalidDate

dateActive(filters) ==
  /\ filters.dateRange.present
  /\ rangeBound(filters.dateRange.startDate).valid \/ rangeBound(filters.dateRange.endDate).valid

datePasses(p, filters) ==
  LET start == rangeBound(filters.dateRange.startDate)
      end == rangeBound(filters.dateRange.endDate)
      promptDateStr == OrElse(p.updated_at, p.created_at)
      promptDate == newDate(promptDateStr)
  IN  IF ~Truthy(promptDateStr) \/ ~promptDate.valid THEN FALSE
      ELSE IF start.valid /\ promptDate.t < start.t THEN FALSE
      ELSE IF end.valid /\ promptDate.t > endOfDay(end.t) THEN FALSE
      ELSE TRUE

passesFilters(p, filters) ==
  /\ categoryActive(filters) => categoryPasses(p, filters)
  /\ tagsActive(filters) => tagsPass(p, filters)
  /\ dateActive(filters) => datePasses(p, filters)

\* applyFilters(prompts, filters)
applyFilters(prompts, filters) ==
  LET byCategory == IF categoryActive(filters)
                    THEN SelectSeq(prompts, LAMBDA p : categoryPasses(p, filters))
                    ELSE prompts
      byTags == IF tagsActive(filters)
                THEN SelectSeq(byCategory, LAMBDA p : tagsPass(p, filters))
                ELSE byCategory
  IN  IF dateActive(filters)
      THEN SelectSeq(byTags, LAMBDA p : datePasses(p, filters))
      ELSE byTags

-----------------------------------------------------------------------------
(* Array.prototype.sort, as ECMAScript specifies it *)

\* Where x goes in acc, which is sorted by falling key k: behind every element
\* whose key is not smaller (the sort is stable).
insertDesc(acc, x) ==
  LET n == Cardinality({i \in 1..Len(acc) : acc[i].k >= x.k})
  IN  SubSeq(acc, 1, n) \o <<x>> \o SubSeq(acc, n + 1, Len(acc))

RECURSIVE sortDescFrom(_, _, _)
sortDescFrom(items, i, acc) ==
  IF i > Len(items) THEN acc
  ELSE sortDescFrom(items, i + 1, insertDesc(acc, items[i]))

\* items.sort((a, b) => b.k - a.k), every key a number
sortDesc(items) == sortDescFrom(items, 1, <<>>)

IndexPermutations(n) == {f \in [1..n -> 1..n] : \A i, j \in 1..n : f[i] = f[j] => i = j}

\* What items.sort((a, b) => b.t - a.t) may leave, the keys being dates [valid, t]:
\* with an Invalid Date the comparator returns NaN, which counts as 0.  If the
\* comparator is then not a consistent comparison (some element compares equal
\* to two elements that differ), the order is implementation-defined.
sortByDateDesc(items) ==
  LET n == Len(items)
      invalid == {i \in 1..n : ~items[i].d.valid}
      times == {items[i].d.t : i \in (1..n) \ invalid}
  IN  IF invalid = {}
      THEN {[i \in 1..n |-> sortDesc([j \in 1..n |-> [p |-> items[j].p, k |-> items[j].d.t]])[i].p]}
      ELSE IF Cardinality(times) <= 1
      THEN {[i \in 1..n |-> items[i].p]}
      ELSE {[i \in 1..n |-> items[f[i]].p] : f \in IndexPermutations(n)}

-----------------------------------------------------------------------------
(* searchEngine.js: search *)

\* `${normalizedQuery}|${JSON.stringify(filters)}|fuzzy:${fuzzy}`; the filters
\* record stands for its serialization.
cacheKey(normalizedQuery, filters, fuzzy) ==
  [q |-> normalizedQuery, f |-> filters, fuzzy |-> fuzzy]

Threw == [status |-> "threw", hit |-> FALSE, results |-> <<>>, highlightTerms |-> <<>>]
Returned(hit, value) ==
  [status |-> "returned", hit |-> hit, results |-> value.results,
   highlightTerms |-> value.highlightTerms]

\* scoreAndSort without the threshold filter of line 251.
scoreAndSortNoThreshold(processedPrompts, queryTokens, fuzzy) ==
  LET n == Len(processedPrompts)
      scored == [i \in 1..n |->
                   [p |-> processedPrompts[i],
                    sc |-> calculateScore(processedPrompts[i], queryTokens, fuzzy)]]
      sorted == sortDesc([i \in 1..n |-> [p |-> scored[i].p, k |-> scored[i].sc.score]])
  IN  IF \E i \in 1..n : scored[i].sc.threw
      THEN [threw |-> TRUE, results |-> <<>>]
      ELSE [threw |-> FALSE, results |-> [i \in 1..Len(sorted) |-> sorted[i].p]]

\* The scoring branch of search (lines 246-252): [threw, results]
scoreAndSort(processedPrompts, queryTokens, fuzzy) ==
  LET n == Len(processedPrompts)
      scored == [i \in 1..n |->
                   [p |-> processedPrompts[i],
                    sc |-> calculateScore(processedPrompts[i], queryTokens, fuzzy)]]
      kept == SelectSeq(scored, LAMBDA x : x.sc.score * 10 >= SCORE_THRESHOLD_TENTHS)
      sorted == sortDesc([i \in 1..Len(kept) |-> [p |-> kept[i].p, k |-> kept[i].sc.score]])
  IN  IF \E i \in 1..n : scored[i].sc.threw
      THEN [threw |-> TRUE, results |-> <<>>]
      ELSE [threw |-> FALSE, results |-> [i \in 1..Len(sorted) |-> sorted[i].p]]

\* The branch of search for an empty query (lines 253-259): the possible orders
sortByRecency(processedPrompts) ==
  sortByDateDesc([i \in 1..Len(processedPrompts) |->
                    [p |-> processedPrompts[i],
                     d |-> newDate(OrElse(processedPrompts[i].updated_at,
                                          processedPrompts[i].created_at))]])

\* search() past the cache lookup (lines 237-264): the set of its outcomes,
\* each [threw, value], value = finalResults
computeResults(allPrompts, searchQuery, filters, fuzzy) ==
  LET normalizedQuery == trim(searchQuery)
      queryTokens == tokenizeAndNormalize(Str(normalizedQuery))
      processedPrompts == IF hasKeys(filters) THEN applyFilters(allPrompts, filters)
                          ELSE allPrompts
  IN  IF Len(queryTokens) > 0
      THEN LET r == scoreAndSort(processedPrompts, queryTokens, fuzzy)
           IN  {[threw |-> r.threw,
                 value |-> [results |-> r.results, highlightTerms |-> queryTokens]]}
      ELSE {[threw |-> FALSE, value |-> [results |-> rs, highlightTerms |-> queryTokens]] :
              rs \in sortByRecency(processedPrompts)}

cacheHas(cache, key) == \E i \in 1..Len(cache) : cache[i].key = key
cacheGet(cache, key) == cache[CHOOSE i \in 1..Len(cache) : cache[i].key = key].value

\* cacheStore with the size test of line 268 written as > instead of >=.
cacheStoreLateEviction(cache, key, value) ==
  LET room == IF Len(cache) > CACHE_MAX_SIZE THEN Tail(cache) ELSE cache
  IN  Append(room, [key |-> key, value |-> value])

\* cacheStore deleting the newest key instead of the oldest.
cacheStoreEvictNewest(cache, key, value) ==
  LET room == IF Len(cache) >= CACHE_MAX_SIZE THEN SubSeq(cache, 1, Len(cache) - 1)
              ELSE cache
  IN  Append(room, [key |-> key, value |-> value])

\* The cache update of search (lines 267-274)
cacheStore(cache, key, value) ==
  LET room == IF Len(cache) >= CACHE_MAX_SIZE THEN Tail(cache) ELSE cache
  IN  Append(room, [key |-> key, value |-> value])

\* JSON.stringify(filters) of line 229 throws.
stringifyThrows(filters) == filters.json = "throws"

\* logSearchQuery(query, filters, resultCount, fromCache): whether it throws.
\* JSON.stringify(filters) throws, or returns undefined, which JSON.parse rejects.
logSearchQuery(filters) == [threw |-> filters.json # "ok"]

\* search(allPrompts, searchQuery, {filters, fuzzy, useCache})
search(allPrompts, searchQuery, filters, fuzzy, useCache) ==
  LET key == cacheKey(trim(searchQuery), filters, fuzzy)
  IN  IF useCache /\ stringifyThrows(filters)
      THEN /\ ret' = Threw
           /\ searchCache' = searchCache
      ELSE IF useCache /\ cacheHas(searchCache, key)
      THEN /\ ret' = IF logSearchQuery(filters).threw THEN Threw
                     ELSE Returned(TRUE, cacheGet(searchCache, key))
           /\ searchCache' = searchCache
      ELSE \E out \in computeResults(allPrompts, searchQuery, filters, fuzzy) :
             IF out.threw
             THEN /\ ret' = Threw
                  /\ searchCache' = searchCache
             ELSE /\ searchCache' = IF useCache
                                    THEN cacheStore(searchCache, key, out.value)
                                    ELSE searchCache
                  /\ ret' = IF logSearchQuery(filters).threw THEN Threw
                            ELSE Returned(FALSE, out.value)

\* clearSearchCache()
clearSearchCache ==
  /\ searchCache' = <<>>
  /\ lastOp' = "clearSearchCache"
  /\ UNCHANGED <<call, ret>>
  /\ UNCHANGED nonSearchVars

-----------------------------------------------------------------------------
(* performanceOptimizer.js: VirtualScroller.  Indices are those of the code,  *)
(* from 0: item i is allItems[i + 1] and its offset itemPositions[i + 1].     *)
(* A DOM element is known by what it was made from; its style lives with its  *)
(* entry in container.children.                                              *)

Node(item, index, epoch) == [kind |-> "item", item |-> item, index |-> index, epoch |-> epoch]
Sizer == [kind |-> "sizer", item |-> "", index |-> 0, epoch |-> 0]
Null == [kind |-> "null", item |-> "", index |-> 0, epoch |-> 0]

\* A style property that was never set.
Unset == -1

Child(node, top, height) == [node |-> node, top |-> top, height |-> height]

\* An HTML string the render callback made from the item and the index
HtmlString(item, index, epoch) ==
  [kind |-> "string", item |-> item, index |-> index, epoch |-> epoch]

\* The text of the HTML string made from an item: blank for the item "e"
markupOf(item) ==
  IF item = "e" THEN <<" ", " ">> ELSE <<"<", "p", ">", item, "<", "/", "p", ">">>

\* The render callback given to the constructor: an element made from the item
\* and the index, an HTML string for the items "h" and "e", and nothing (null)
\* for the item "n".
renderItemFn(item, index, epoch) ==
  IF item = "n" THEN Null
  ELSE IF item \in {"h", "e"} THEN HtmlString(item, index, epoch)
  ELSE Node(item, index, epoch)

\* tempDiv.innerHTML = itemElement.trim(); tempDiv.firstChild (lines 104-106):
\* the element the markup describes, null when nothing is left of it
firstChild(html) ==
  IF trim(markupOf(html.item)) = <<>> THEN Null
  ELSE Node(html.item, html.index, html.epoch)

\* Lines 102-107: the callback's result, an HTML string turned into its element
createElement(item, index, epoch) ==
  LET itemElement == renderItemFn(item, index, epoch)
  IN  IF itemElement.kind = "string" THEN firstChild(itemElement) ELSE itemElement

\* !itemElement (line 108) that takes every result for an element
isFalsyNever(itemElement) == FALSE

\* !itemElement (line 108)
isFalsy(itemElement) == itemElement.kind = "null"

\* Whether the value has a style property to assign to (lines 110-119): null
\* has none, and reading a property of it throws a TypeError
hasStyle(itemElement) == itemElement.kind \in {"item", "sizer"}

\* The getItemHeightFn given to the constructor in variable-height mode.
getItemHeightFn(index, item) == IF item = "y" THEN 3 ELSE 1

EmptyMap == [i \in {} |-> Null]

\* map.delete(i)
mapDelete(map, i) == [j \in (DOMAIN map) \ {i} |-> map[j]]
\* map.set(i, v)
mapSet(map, i, v) == [j \in (DOMAIN map) \cup {i} |-> IF j = i THEN v ELSE map[j]]

\* container.removeChild(element)
removeChild(children, node) == SelectSeq(children, LAMBDA c : c.node # node)

\* element.style.top = ...; element.style.height = ... (Unset: left as it is)
setStyle(children, node, top, height) ==
  [k \in 1..Len(children) |->
     IF children[k].node = node
     THEN Child(node, top, IF height = Unset THEN children[k].height ELSE height)
     ELSE children[k]]

\* The loop of _calculateTotalContentHeight in variable-height mode:
\* [totalContentHeight, itemPositions]
RECURSIVE accumulateHeights(_, _, _, _)
accumulateHeights(allItems, i, total, positions) ==
  IF i >= Len(allItems) THEN [totalContentHeight |-> total, itemPositions |-> positions]
  ELSE accumulateHeights(allItems, i + 1, total + getItemHeightFn(i, allItems[i + 1]),
                         Append(positions, total))

\* _calculateTotalContentHeight()
calculateTotalContentHeight(s) ==
  LET r == IF s.hasHeightFn
           THEN accumulateHeights(s.allItems, 0, 0, <<>>)
           ELSE [totalContentHeight |-> Len(s.allItems) * s.itemHeight,
                 itemPositions |-> s.itemPositions]
  IN  [s EXCEPT !.totalContentHeight = r.totalContentHeight,
                !.itemPositions = r.itemPositions,
                !.sizerHeight = IF s.hasSizer THEN r.totalContentHeight ELSE s.sizerHeight]

\* updateViewport()
updateViewport(s, c) ==
  [s EXCEPT !.scrollTop = c.scrollTop, !.viewportHeight = c.clientHeight]

\* The scan of _getStartIndex in variable-height mode
RECURSIVE scanStart(_, _)
scanStart(s, i) ==
  IF i >= Len(s.itemPositions) THEN 0
  ELSE IF s.itemPositions[i + 1] + getItemHeightFn(i, s.allItems[i + 1]) > s.scrollTop THEN i
  ELSE scanStart(s, i + 1)

\* _getStartIndex()
getStartIndex(s) ==
  LET startNode == IF s.hasHeightFn THEN scanStart(s, 0)
                   ELSE s.scrollTop \div s.itemHeight
  IN  Max2(0, startNode - s.bufferSize)

\* The scan of _getEndIndex in variable-height mode
RECURSIVE scanEnd(_, _, _)
scanEnd(s, i, scrollBottom) ==
  IF i >= Len(s.itemPositions) THEN 0
  ELSE IF s.itemPositions[i + 1] >= scrollBottom THEN i
  ELSE IF i = Len(s.itemPositions) - 1 THEN i
  ELSE scanEnd(s, i + 1, scrollBottom)

\* _getEndIndex() that adds no buffer after the last visible index
getEndIndexNoBuffer(s) ==
  LET scrollBottom == s.scrollTop + s.viewportHeight
      endNode == IF s.hasHeightFn THEN scanEnd(s, getStartIndex(s), scrollBottom)
                 ELSE (scrollBottom + s.itemHeight - 1) \div s.itemHeight
  IN  Min2(Len(s.allItems) - 1, endNode)

\* _getEndIndex()
getEndIndex(s) ==
  LET scrollBottom == s.scrollTop + s.viewportHeight
      endNode == IF s.hasHeightFn THEN scanEnd(s, getStartIndex(s), scrollBottom)
                 ELSE (scrollBottom + s.itemHeight - 1) \div s.itemHeight
  IN  Min2(Len(s.allItems) - 1, endNode + s.bufferSize)

\* One change of the container's child list, in the order the changes are made
Mutation(op, node) == [op |-> op, node |-> node]

\* The for loop of render() from index i on: [children, old, new, threw, log],
\* old being this.renderedItems, new being newRenderedItems and log the changes
\* made to the container's child list, in order; threw when the loop was left
\* by a TypeError.
RECURSIVE renderLoop(_, _, _, _, _, _)
renderLoop(s, children, old, new, i, endIndex) ==
  IF i > endIndex
  THEN [children |-> children, old |-> old, new |-> new, threw |-> FALSE, log |-> <<>>]
  ELSE IF i < 0 \/ i >= Len(s.allItems)
  THEN renderLoop(s, children, old, new, i + 1, endIndex)
  ELSE LET existing == i \in DOMAIN old
           itemElement == IF existing THEN old[i]
                          ELSE createElement(s.allItems[i + 1], i, s.epoch)
           topPosition == IF s.hasHeightFn THEN s.itemPositions[i + 1] ELSE i * s.itemHeight
           appended == IF existing THEN children
                       ELSE Append(children, Child(itemElement, Unset, Unset))
           styled == setStyle(appended, itemElement, topPosition,
                              IF s.hasHeightFn THEN Unset ELSE s.itemHeight)
       IN  IF ~existing /\ isFalsy(itemElement)
           THEN renderLoop(s, children, old, new, i + 1, endIndex)
           ELSE IF ~hasStyle(itemElement)
           THEN [children |-> children, old |-> old, new |-> new, threw |-> TRUE,
                 log |-> <<>>]
           ELSE LET rest == renderLoop(s, styled, mapDelete(old, i),
                                       mapSet(new, i, itemElement), i + 1, endIndex)
                IN  IF existing THEN rest
                    ELSE [rest EXCEPT !.log = <<Mutation("appendChild", itemElement)>> \o @]

\* Removing from the container every element left in this.renderedItems (lines 127-129)
RECURSIVE removeAll(_, _)
removeAll(children, nodes) ==
  IF nodes = {} THEN children
  ELSE LET n == CHOOSE x \in nodes : TRUE
       IN  removeAll(removeChild(children, n), nodes \ {n})

\* The removeChild calls of this.renderedItems.forEach (lines 127-129), in the
\* Map's order, which is that of the indices
RECURSIVE removals(_)
removals(map) ==
  IF DOMAIN map = {} THEN <<>>
  ELSE LET i == CHOOSE x \in DOMAIN map : \A y \in DOMAIN map : x <= y
       IN  <<Mutation("removeChild", map[i])>> \o removals(mapDelete(map, i))

\* render() that leaves in the container the elements that fell out of the window
renderKeepsStale(s, c) ==
  LET r == renderLoop(s, c.children, s.renderedItems, EmptyMap,
                      getStartIndex(s), getEndIndex(s))
  IN  [s |-> [s EXCEPT !.renderedItems = r.new],
       c |-> [c EXCEPT !.children = r.children],
       threw |-> r.threw,
       log |-> r.log]

\* render(): [s, c, threw, log].  A TypeError leaves the loop's changes so far:
\* this.renderedItems less the indices the loop has taken over.
render(s, c) ==
  LET r == renderLoop(s, c.children, s.renderedItems, EmptyMap,
                      getStartIndex(s), getEndIndex(s))
      left == {r.old[i] : i \in DOMAIN r.old}
  IN  IF r.threw
      THEN [s |-> [s EXCEPT !.renderedItems = r.old],
            c |-> [c EXCEPT !.children = r.children],
            threw |-> TRUE,
            log |-> r.log]
      ELSE [s |-> [s EXCEPT !.renderedItems = r.new],
            c |-> [c EXCEPT !.children = removeAll(r.children, left)],
            threw |-> FALSE,
            log |-> r.log \o removals(r.old)]

\* updateItems(newItems) without this.renderedItems.clear()
updateItemsKeepsRendered(s, c, newItems) ==
  LET s1 == calculateTotalContentHeight([s EXCEPT !.allItems = newItems,
                                                  !.epoch = s.epoch + 1])
      c2 == [c EXCEPT !.children = SelectSeq(c.children, LAMBDA ch : ch.node = Sizer)]
  IN  render(s1, c2)

\* updateItems(newItems): [s, c]
updateItems(s, c, newItems) ==
  LET s1 == calculateTotalContentHeight([s EXCEPT !.allItems = newItems,
                                                  !.epoch = s.epoch + 1])
      s2 == [s1 EXCEPT !.renderedItems = EmptyMap]
      c2 == [c EXCEPT !.children = SelectSeq(c.children, LAMBDA ch : ch.node = Sizer)]
  IN  render(s2, c2)

\* destroy() without this.allItems = []
destroyKeepsItems(s, c) ==
  LET noSizer == IF s.hasSizer /\ \E k \in 1..Len(c.children) : c.children[k].node = Sizer
                 THEN removeChild(c.children, Sizer)
                 ELSE c.children
      rendered == {s.renderedItems[i] : i \in DOMAIN s.renderedItems}
  IN  [s |-> [s EXCEPT !.renderedItems = EmptyMap, !.itemPositions = <<>>],
       c |-> [c EXCEPT !.listening = FALSE, !.children = removeAll(noSizer, rendered)]]

\* destroy(): [s, c]
destroy(s, c) ==
  LET noSizer == IF s.hasSizer /\ \E k \in 1..Len(c.children) : c.children[k].node = Sizer
                 THEN removeChild(c.children, Sizer)
                 ELSE c.children
      rendered == {s.renderedItems[i] : i \in DOMAIN s.renderedItems}
  IN  [s |-> [s EXCEPT !.renderedItems = EmptyMap, !.allItems = <<>>, !.itemPositions = <<>>],
       c |-> [c EXCEPT !.listening = FALSE, !.children = removeAll(noSizer, rendered)]]

\* new VirtualScroller(container, allItems, renderItemFn, options): [s, c]
construct(c, allItems, optItemHeight, optBufferSize, hasHeightFn) ==
  LET s0 == [allItems |-> allItems,
             itemHeight |-> IF optItemHeight # 0 THEN optItemHeight ELSE 50,
             bufferSize |-> IF optBufferSize # 0 THEN optBufferSize ELSE 10,
             hasHeightFn |-> hasHeightFn,
             scrollTop |-> 0, viewportHeight |-> 0, totalContentHeight |-> 0,
             renderedItems |-> EmptyMap, itemPositions |-> <<>>,
             hasSizer |-> FALSE, sizerHeight |-> Unset, epoch |-> 0]
      s1 == calculateTotalContentHeight(s0)
      s2 == [s1 EXCEPT !.hasSizer = TRUE, !.sizerHeight = s1.totalContentHeight]
      c2 == [c EXCEPT !.children = Append(c.children, Child(Sizer, Unset, Unset)),
                      !.listening = TRUE]
  IN  render(updateViewport(s2, c2), c2)

-----------------------------------------------------------------------------
(* The operations of a VirtualScroller and the events of its container *)

\* At most this many render callbacks wait for the next frame.
MaxPending == 2
\* At most this many updateItems() calls are made.
MaxUpdates == 2

ItemLists == { <<"x", "y", "x", "y", "x", "y", "x", "y">>, <<"y", "n", "h", "e", "x">>, <<>> }
ScrollPositions == {0, 3, 7}
ClientHeights == {2, 5}

Called(op, items) == [op |-> op, items |-> items]

\* Another scroll position of the container; the scroll event runs onScroll()
\* while the listener is attached.
Scroll(pos) ==
  /\ pos # container.scrollTop
  /\ container' = [container EXCEPT !.scrollTop = pos]
  /\ IF container.listening
     THEN /\ rafQueue < MaxPending
          /\ scroller' = updateViewport(scroller, container')
          /\ rafQueue' = rafQueue + 1
          /\ vsCall' = Called("onScroll", <<>>)
     ELSE /\ UNCHANGED <<scroller, rafQueue>>
          /\ vsCall' = Called("scroll", <<>>)
  /\ vsThrew' = FALSE
  /\ vsLog' = <<>>
  /\ UNCHANGED destroyed
  /\ UNCHANGED nonScrollerVars

\* The container gets another height; the scroller listens to no resize event.
Resize(height) ==
  /\ height # container.clientHeight
  /\ container' = [container EXCEPT !.clientHeight = height]
  /\ vsCall' = Called("resize", <<>>)
  /\ vsThrew' = FALSE
  /\ vsLog' = <<>>
  /\ UNCHANGED <<scroller, rafQueue, destroyed>>
  /\ UNCHANGED nonScrollerVars

\* The next animation frame runs a callback scheduled by onScroll: render().
AnimationFrame ==
  /\ rafQueue > 0
  /\ LET r == render(scroller, container)
     IN  scroller' = r.s /\ container' = r.c /\ vsThrew' = r.threw /\ vsLog' = r.log
  /\ rafQueue' = rafQueue - 1
  /\ vsCall' = Called("render", <<>>)
  /\ UNCHANGED destroyed
  /\ UNCHANGED nonScrollerVars

\* scroller.updateViewport(), called by the owner
UpdateViewport ==
  /\ ~destroyed
  /\ scroller' = updateViewport(scroller, container)
  /\ vsCall' = Called("updateViewport", <<>>)
  /\ vsThrew' = FALSE
  /\ vsLog' = <<>>
  /\ UNCHANGED <<container, rafQueue, destroyed>>
  /\ UNCHANGED nonScrollerVars

\* scroller.updateItems(newItems), called by the owner
UpdateItems(newItems) ==
  /\ ~destroyed
  /\ scroller.epoch < MaxUpdates
  /\ LET r == updateItems(scroller, container, newItems)
     IN  scroller' = r.s /\ container' = r.c /\ vsThrew' = r.threw /\ vsLog' = r.log
  /\ vsCall' = Called("updateItems", newItems)
  /\ UNCHANGED <<rafQueue, destroyed>>
  /\ UNCHANGED nonScrollerVars

\* scroller.destroy(), called by the owner
Destroy ==
  /\ ~destroyed
  /\ LET r == destroy(scroller, container)
     IN  scroller' = r.s /\ container' = r.c
  /\ destroyed' = TRUE
  /\ vsCall' = Called("destroy", <<>>)
  /\ vsThrew' = FALSE
  /\ vsLog' = <<>>
  /\ UNCHANGED rafQueue
  /\ UNCHANGED nonScrollerVars

-----------------------------------------------------------------------------
(* ui/commentsResults.js, ui/renderPromptBlock.js: the request tokens that    *)
(* guard the comments/results fetches.  What a container shows is known by    *)
(* its kind and by the request that wrote it.                                 *)

ContainerIds == {"c1", "c2"}
PromptIds == {"pA", "pB"}

\* At most this many renderCommentsResults() calls are made.
MaxRequests == 3
\* At most this many renderPromptBlock() calls are made.
MaxBlocks == 1

\* if (!window.X) window.X = 1; const requestId = ++window.X   (0: not set yet)
nextRequestId(windowId) == (IF windowId = 0 THEN 1 ELSE windowId) + 1

Html(kind, req) == [kind |-> kind, req |-> req]
NoContent == Html("empty", 0)

Fetch(kind, id, c, b, promptId, step, localResults) ==
  [kind |-> kind, id |-> id, container |-> c, block |-> b, promptId |-> promptId,
   step |-> step, localResults |-> localResults]

\* renderCommentsResults(promptId, container) up to its await (lines 71-92)
renderCommentsResults(promptId, c) ==
  /\ windowIds.comments <= MaxRequests
  /\ LET requestId == nextRequestId(windowIds.comments)
     IN  /\ windowIds' = [windowIds EXCEPT !.comments = requestId]
         /\ containers' = [containers EXCEPT ![c] = [token |-> requestId,
                                                     html |-> Html("loading", requestId)]]
         /\ inflight' = inflight \cup
                          {Fetch("comments", requestId, c, 0, promptId, "fetch", "none")}
  /\ UNCHANGED blocks
  /\ UNCHANGED nonFetchVars

\* Both fetches of a renderCommentsResults call succeeded: lines 93-176
CommentsFetched(r) ==
  /\ r \in inflight
  /\ r.kind = "comments"
  /\ containers' = IF containers[r.container].token # r.id
                   THEN containers
                   ELSE [containers EXCEPT ![r.container].html = Html("data", r.id)]
  /\ inflight' = inflight \ {r}
  /\ UNCHANGED <<windowIds, blocks>>
  /\ UNCHANGED nonFetchVars

\* One of the fetches of a renderCommentsResults call failed: lines 384-388
CommentsFailed(r) ==
  /\ r \in inflight
  /\ r.kind = "comments"
  /\ containers' = [containers EXCEPT ![r.container].html = Html("error", r.id)]
  /\ inflight' = inflight \ {r}
  /\ UNCHANGED <<windowIds, blocks>>
  /\ UNCHANGED nonFetchVars

\* renderPromptBlock(prompt, ...): a new block, its token, and the start of the
\* fetch (lines 135, 408-409, 578-586)
renderPromptBlock(promptId) ==
  /\ Len(blocks) < MaxBlocks
  /\ LET requestId == nextRequestId(windowIds.block)
     IN  /\ windowIds' = [windowIds EXCEPT !.block = requestId]
         /\ blocks' = Append(blocks, [token |-> requestId, results |-> "initial",
                                      comments |-> "initial", by |-> 0])
         /\ inflight' = inflight \cup
                          {Fetch("block", requestId, "", Len(blocks) + 1, promptId,
                                 "results", "none")}
  /\ UNCHANGED containers
  /\ UNCHANGED nonFetchVars

\* fetchResults of a block settled (lines 586-590): a failure gives no results
BlockResultsSettled(r, ok) ==
  /\ r \in inflight
  /\ r.kind = "block"
  /\ r.step = "results"
  /\ inflight' = (inflight \ {r}) \cup
                   {[r EXCEPT !.step = "comments",
                              !.localResults = IF ok THEN "fetched" ELSE "empty"]}
  /\ UNCHANGED <<windowIds, containers, blocks>>
  /\ UNCHANGED nonFetchVars

\* fetchComments of a block settled, and the rest of the function (lines 591-606)
BlockCommentsSettled(r, ok) ==
  /\ r \in inflight
  /\ r.kind = "block"
  /\ r.step = "comments"
  /\ blocks' = IF blocks[r.block].token # r.id
               THEN blocks
               ELSE [blocks EXCEPT ![r.block].results = r.localResults,
                                   ![r.block].comments = IF ok THEN "fetched" ELSE "empty",
                                   ![r.block].by = r.id]
  /\ inflight' = inflight \ {r}
  /\ UNCHANGED <<windowIds, containers>>
  /\ UNCHANGED nonFetchVars

\* No fetch made yet, for the specifications that make none.
IdleFetch ==
  /\ windowIds = [comments |-> 0, block |-> 0]
  /\ containers = [c \in ContainerIds |-> [token |-> 0, html |-> NoContent]]
  /\ blocks = <<>>
  /\ inflight = {}

-----------------------------------------------------------------------------
(* performanceOptimizer.js: deduplicateRequest.  A promise is known by its    *)
(* place in promises; with it go the key it was made for, the state of the    *)
(* promise requestFn returned (work), whether the callback attached to that   *)
(* promise has run (handled), and its own state.                              *)

RequestKeys == {"k1", "k2"}
\* requestFn either returns a promise or throws before it returns one.
RequestFns == {"async", "throws"}

\* At most this many deduplicateRequest() calls are made.
MaxCalls == 3

Pending(key) == [key |-> key, work |-> "pending", handled |-> FALSE, state |-> "pending"]
CallOf(key, promise, invoked, threw) ==
  [key |-> key, promise |-> promise, invoked |-> invoked, threw |-> threw]

\* deduplicateRequest that never looks the key up in ongoingRequests
deduplicateRequestNoLookup(requestId, requestFn) ==
  /\ Len(calls) < MaxCalls
  /\ IF requestFn = "throws"
     THEN /\ calls' = Append(calls, CallOf(requestId, 0, TRUE, TRUE))
          /\ UNCHANGED <<ongoingRequests, promises>>
     ELSE /\ promises' = Append(promises, Pending(requestId))
          /\ ongoingRequests' = mapSet(ongoingRequests, requestId, Len(promises) + 1)
          /\ calls' = Append(calls, CallOf(requestId, Len(promises) + 1, TRUE, FALSE))
  /\ UNCHANGED nonDedupVars

\* deduplicateRequest(requestId, requestFn)
deduplicateRequest(requestId, requestFn) ==
  /\ Len(calls) < MaxCalls
  /\ IF requestId \in DOMAIN ongoingRequests
     THEN /\ calls' = Append(calls, CallOf(requestId, ongoingRequests[requestId], FALSE, FALSE))
          /\ UNCHANGED <<ongoingRequests, promises>>
     ELSE IF requestFn = "throws"
     THEN /\ calls' = Append(calls, CallOf(requestId, 0, TRUE, TRUE))
          /\ UNCHANGED <<ongoingRequests, promises>>
     ELSE /\ promises' = Append(promises, Pending(requestId))
          /\ ongoingRequests' = mapSet(ongoingRequests, requestId, Len(promises) + 1)
          /\ calls' = Append(calls, CallOf(requestId, Len(promises) + 1, TRUE, FALSE))
  /\ UNCHANGED nonDedupVars

\* The promise that requestFn returned is fulfilled or rejected.
WorkSettles(p, ok) ==
  /\ p \in 1..Len(promises)
  /\ promises[p].work = "pending"
  /\ promises' = [promises EXCEPT ![p].work = IF ok THEN "fulfilled" ELSE "rejected"]
  /\ UNCHANGED <<ongoingRequests, calls>>
  /\ UNCHANGED nonDedupVars

\* The callbacks of lines 251-258 that delete the entry only after a success
SettleCallbackSuccessOnly(p) ==
  /\ p \in 1..Len(promises)
  /\ promises[p].work # "pending"
  /\ ~promises[p].handled
  /\ ongoingRequests' = IF promises[p].work = "fulfilled"
                        THEN mapDelete(ongoingRequests, promises[p].key)
                        ELSE ongoingRequests
  /\ promises' = [promises EXCEPT ![p].handled = TRUE]
  /\ UNCHANGED calls
  /\ UNCHANGED nonDedupVars

\* The callback of .then (lines 251-254) or of .catch (lines 255-258) runs.
SettleCallback(p) ==
  /\ p \in 1..Len(promises)
  /\ promises[p].work # "pending"
  /\ ~promises[p].handled
  /\ ongoingRequests' = mapDelete(ongoingRequests, promises[p].key)
  /\ promises' = [promises EXCEPT ![p].handled = TRUE]
  /\ UNCHANGED calls
  /\ UNCHANGED nonDedupVars

\* requestPromise settles with what its callback returned or threw.
PromiseSettles(p) ==
  /\ p \in 1..Len(promises)
  /\ promises[p].handled
  /\ promises[p].state = "pending"
  /\ promises' = [promises EXCEPT ![p].state = promises[p].work]
  /\ UNCHANGED <<ongoingRequests, calls>>
  /\ UNCHANGED nonDedupVars

\* No request made yet, for the specifications that make none.
IdleDedup ==
  /\ ongoingRequests = EmptyMap
  /\ promises = <<>>
  /\ calls = <<>>

-----------------------------------------------------------------------------
(* Calls of levenshteinDistance and of termMatches on their own *)

\* Words have at most this many characters.
MaxWordLen == 3
\* A token list has at most this many tokens.
MaxTokens == 2

SeqsUpTo(S, n) == UNION {[1..k -> S] : k \in 0..n}

Words == SeqsUpTo({"a", "b"}, MaxWordLen)
\* The tokens of a field: words one character short of the longest
TokenWords == [1..(MaxWordLen - 1) -> {"a", "b"}]
TokenLists == SeqsUpTo(TokenWords, MaxTokens)
Thresholds == 0..(FUZZY_MATCH_THRESHOLD + 1)

FnCall(fn, s1, s2, tokens, fuzzy, threshold) ==
  [fn |-> fn, s1 |-> s1, s2 |-> s2, tokens |-> tokens, fuzzy |-> fuzzy,
   threshold |-> threshold, done |-> FALSE, distance |-> 0, matched |-> FALSE]

NoFnCall == FnCall("none", <<>>, <<>>, <<>>, FALSE, 0)

\* No such call, for the specifications that make none.
IdleWords == fnCall = NoFnCall

\* levenshteinDistance(s1, s2) is called and returns.
CallLevenshtein ==
  /\ fnCall.fn = "levenshteinDistance"
  /\ ~fnCall.done
  /\ fnCall' = [fnCall EXCEPT !.done = TRUE,
                              !.distance = levenshteinDistance(fnCall.s1, fnCall.s2)]
  /\ UNCHANGED nonWordVars

\* termMatches(term, textTokens, fuzzy, fuzzyThreshold) is called and returns.
CallTermMatches ==
  /\ fnCall.fn = "termMatches"
  /\ ~fnCall.done
  /\ fnCall' = [fnCall EXCEPT !.done = TRUE,
                              !.matched = termMatches(fnCall.s1, fnCall.tokens, fnCall.fuzzy,
                                                      fnCall.threshold)]
  /\ UNCHANGED nonWordVars

-----------------------------------------------------------------------------
(* performanceOptimizer.js: LRUCache.  The Map is the sequence of its entries *)
(* in insertion order, which is the order its keys() iterator follows.        *)

LruKeys == {"a", "b", "c", "d"}
LruValues == {"v1", "v2"}

\* The largest capacity a cache is made with
MaxCapacity == 3

LruEntry(key, value) == [key |-> key, value |-> value]

\* this.cache.has(key)
lruHas(cache, key) == \E k \in 1..Len(cache) : cache[k].key = key

\* this.cache.get(key), for a key the Map holds
lruValue(cache, key) == (CHOOSE e \in {cache[k] : k \in 1..Len(cache)} : e.key = key).value

\* this.cache.delete(key)
lruMapDelete(cache, key) == SelectSeq(cache, LAMBDA e : e.key # key)

\* this.cache.set(key, value), for a key the Map does not hold
lruMapSet(cache, key, value) == Append(cache, LruEntry(key, value))

\* get(key) that reads the value and leaves the entry where it is
lruGetInPlace(cache, key) ==
  IF ~lruHas(cache, key) THEN [cache |-> cache, result |-> "null"]
  ELSE [cache |-> cache, result |-> lruValue(cache, key)]

\* get(key): [cache, result]
lruGet(cache, key) ==
  IF ~lruHas(cache, key) THEN [cache |-> cache, result |-> "null"]
  ELSE LET value == lruValue(cache, key)
       IN  [cache |-> lruMapSet(lruMapDelete(cache, key), key, value), result |-> value]

\* put(key, value): the Map afterwards
lruPut(cache, capacity, key, value) ==
  LET kept == IF lruHas(cache, key) THEN lruMapDelete(cache, key)
              ELSE IF Len(cache) >= capacity
              THEN (IF cache = <<>> THEN cache ELSE lruMapDelete(cache, cache[1].key))
              ELSE cache
  IN  lruMapSet(kept, key, value)

\* The record of a call: the method, its arguments, what it returned and the
\* Map as the call found it
LruCalled(op, key, value, result, before) ==
  [op |-> op, key |-> key, value |-> value, result |-> result, before |-> before]

\* A key counts as used: it becomes the most recently used one
used(uses, key) == Append(SelectSeq(uses, LAMBDA k : k # key), key)

\* cache.get(key)
LruGet(key) ==
  /\ LET r == lruGet(lruCache, key)
     IN  /\ lruCache' = r.cache
         /\ lruCall' = LruCalled("get", key, "", r.result, lruCache)
  /\ lruUses' = IF lruHas(lruCache, key) THEN used(lruUses, key) ELSE lruUses
  /\ UNCHANGED lruCapacity
  /\ UNCHANGED nonLruVars

\* cache.put(key, value)
LruPut(key, value) ==
  /\ lruCache' = lruPut(lruCache, lruCapacity, key, value)
  /\ lruCall' = LruCalled("put", key, value, "undefined", lruCache)
  /\ lruUses' = LET now == used(lruUses, key)
                IN  SelectSeq(now, LAMBDA k : lruHas(lruCache', k))
  /\ UNCHANGED lruCapacity
  /\ UNCHANGED nonLruVars

\* cache.delete(key)
LruDelete(key) ==
  /\ lruCache' = lruMapDelete(lruCache, key)
  /\ lruCall' = LruCalled("delete", key, "", "undefined", lruCache)
  /\ lruUses' = SelectSeq(lruUses, LAMBDA k : k # key)
  /\ UNCHANGED lruCapacity
  /\ UNCHANGED nonLruVars

\* cache.clear()
LruClear ==
  /\ lruCache' = <<>>
  /\ lruCall' = LruCalled("clear", "", "", "undefined", lruCache)
  /\ lruUses' = <<>>
  /\ UNCHANGED lruCapacity
  /\ UNCHANGED nonLruVars

NoLruCall == LruCalled("constructor", "", "", "undefined", <<>>)

\* new LRUCache(1), left alone
IdleLru ==
  /\ lruCache = <<>>
  /\ lruCapacity = 1
  /\ lruCall = NoLruCall
  /\ lruUses = <<>>

-----------------------------------------------------------------------------
(* performanceOptimizer.js: createBatchRequester.  Time is counted in ticks;  *)
(* a submission is known by its number, the index of its call in submitted.   *)

\* The delay given to createBatchRequester, in ticks
DelayTicks == 2
\* At most this many items are given to the requester
MaxItems == 3

BatchItems == {"x", "y"}

\* timeoutId = null
NoTimer == -1

\* What a batchProcessorFn call comes to: an array as long as the batch, an
\* array of another length, another value, undefined, or a rejection
ProcessorOutcomes == {"array", "otherLength", "value", "undefined", "rejects"}

PendingPromise == [state |-> "pending", kind |-> "", call |-> 0, pos |-> 0]
\* resolve(results[index]) of the call-th batchProcessorFn call
ResolvedElement(c, index) == [state |-> "resolved", kind |-> "element", call |-> c, pos |-> index]
\* resolve(results)
ResolvedResults(c) == [state |-> "resolved", kind |-> "results", call |-> c, pos |-> 0]
\* reject(error)
Rejected(c) == [state |-> "rejected", kind |-> "error", call |-> c, pos |-> 0]

\* One call of the requester: the item, the ticks since the call before it
\* (DelayTicks for that many or more, and for the first call) and its promise
Submission(item, gap, promise) == [item |-> item, gap |-> gap, promise |-> promise]

\* One call of batchProcessorFn: the submissions of currentBatch, the items
\* passed, and what the call came to ("awaiting" until it settles)
Dispatch(ids, items, outcome) == [ids |-> ids, items |-> items, outcome |-> outcome]

\* The try block of lines 290-300 that resolves every promise with the results
settleWithResults(subs, ids, c, outcome) ==
  [i \in 1..Len(subs) |->
     IF \E k \in 1..Len(ids) : ids[k] = i
     THEN [subs[i] EXCEPT !.promise =
             IF outcome \in {"rejects", "throws"} THEN Rejected(c) ELSE ResolvedResults(c)]
     ELSE subs[i]]

\* Lines 287-303: what the promises of currentBatch come to once the call of
\* batchProcessorFn has settled
settle(subs, ids, c, outcome) ==
  [i \in 1..Len(subs) |->
     IF \E k \in 1..Len(ids) : ids[k] = i
     THEN LET index == CHOOSE k \in 1..Len(ids) : ids[k] = i
          IN  [subs[i] EXCEPT !.promise =
                 IF outcome \in {"rejects", "throws"} THEN Rejected(c)
                 ELSE IF outcome = "array" THEN ResolvedElement(c, index)
                 ELSE IF outcome # "undefined" /\ Len(ids) = 1 THEN ResolvedResults(c)
                 ELSE ResolvedResults(c)]
     ELSE subs[i]]

\* requester(item): the item joins the batch and the timer starts anew
Submit(item) ==
  /\ Len(submitted) < MaxItems
  /\ LET gap == IF timeoutId = NoTimer THEN DelayTicks ELSE DelayTicks - timeoutId
     IN  submitted' = Append(submitted, Submission(item, gap, PendingPromise))
  /\ batch' = Append(batch, Len(submitted) + 1)
  /\ timeoutId' = DelayTicks
  /\ UNCHANGED dispatched
  /\ UNCHANGED nonBatchVars

\* A tick passes while the timer runs
Tick ==
  /\ timeoutId > 0
  /\ timeoutId' = timeoutId - 1
  /\ UNCHANGED <<batch, submitted, dispatched>>
  /\ UNCHANGED nonBatchVars

\* The timer fires: the callback of lines 283-304 up to its await, or through
\* its catch when batchProcessorFn throws instead of returning
TimerFires(throws) ==
  /\ timeoutId = 0
  /\ batch' = <<>>
  /\ timeoutId' = NoTimer
  /\ LET items == [k \in 1..Len(batch) |-> submitted[batch[k]].item]
     IN  IF throws
         THEN /\ dispatched' = Append(dispatched, Dispatch(batch, items, "throws"))
              /\ submitted' = settle(submitted, batch, Len(dispatched) + 1, "throws")
         ELSE /\ dispatched' = Append(dispatched, Dispatch(batch, items, "awaiting"))
              /\ UNCHANGED submitted
  /\ UNCHANGED nonBatchVars

\* The await of line 288 ends: the rest of the callback runs
ProcessorSettles(c, outcome) ==
  /\ c \in 1..Len(dispatched)
  /\ dispatched[c].outcome = "awaiting"
  /\ dispatched' = [dispatched EXCEPT ![c].outcome = outcome]
  /\ submitted' = settle(submitted, dispatched[c].ids, c, outcome)
  /\ UNCHANGED <<batch, timeoutId>>
  /\ UNCHANGED nonBatchVars

\* A requester nothing was given to
IdleBatch ==
  /\ batch = <<>>
  /\ timeoutId = NoTimer
  /\ submitted = <<>>
  /\ dispatched = <<>>

-----------------------------------------------------------------------------
(* ui/promptListRender.js: renderPrompts().  A child of #prompt-list is known *)
(* by the call that made it; the handlers a call attaches are known by the    *)
(* call, whose filteredPrompts they close over.                              *)

\* At most this many renderPrompts() calls are made.
MaxRenders == 2

ITEM_HEIGHT_LIST == 140
ITEM_HEIGHT_GRID == 260
BUFFER == 6
\* containerHeight when promptList.clientHeight is 0
DEFAULT_CONTAINER_HEIGHT == 600

Prompt(id, category) == [id |-> id, category |-> category]

\* What fetchPrompts({}) resolves with
AllPrompts == <<Prompt("q1", "catA"), Prompt("q2", "catB"), Prompt("q3", "catA")>>

\* window.currentParams.category at the time of a call ("": no category)
CategoryParams == {"", "catB", "catC"}
ViewModes == {"list", "grid"}
PromptListHeights == {0, 300}

\* Lines 31-48, for parameters that name at most a category
filterPrompts(allPrompts, category) ==
  IF category = "" THEN allPrompts
  ELSE SelectSeq(allPrompts, LAMBDA p : p.category = category)

NoPrompt == Prompt("", "")

Spacer(by, which) == [kind |-> which, by |-> by, idx |-> -1, prompt |-> NoPrompt]
\* The empty-state message (lines 66-87) or the error message (line 311)
Message(by, which) == [kind |-> which, by |-> by, idx |-> -1, prompt |-> NoPrompt]
\* renderPromptBlock(prompt, ...) with data-virtual-idx = i (lines 166-173)
Block(by, i, prompt) == [kind |-> "block", by |-> by, idx |-> i, prompt |-> prompt]

RenderCall(category, viewMode, clientHeight, overlaps, state, filteredPrompts) ==
  [category |-> category, viewMode |-> viewMode, clientHeight |-> clientHeight,
   overlaps |-> overlaps, state |-> state, filteredPrompts |-> filteredPrompts]

\* The blocks renderVisible makes for the indices from i to endIdx - 1 that have
\* no block yet, in index order (lines 164-185)
RECURSIVE newBlocks(_, _, _, _, _)
newBlocks(by, filteredPrompts, existing, i, endIdx) ==
  IF i >= endIdx THEN <<>>
  ELSE (IF i \in existing THEN <<>> ELSE <<Block(by, i, filteredPrompts[i + 1])>>)
       \o newBlocks(by, filteredPrompts, existing, i + 1, endIdx)

\* The first renderVisible() of a call (lines 133-190, with scrollTop = 0 and
\* no range rendered before), on the children that hold the call's spacers
renderVisible(children, by, r, filteredPrompts) ==
  LET itemHeight == IF r.viewMode = "list" THEN ITEM_HEIGHT_LIST ELSE ITEM_HEIGHT_GRID
      containerHeight == IF r.clientHeight # 0 THEN r.clientHeight
                         ELSE DEFAULT_CONTAINER_HEIGHT
      total == Len(filteredPrompts)
      startIdx == Max2(0, (0 \div itemHeight) - BUFFER)
      endIdx == Min2(total, ((0 + containerHeight + itemHeight - 1) \div itemHeight) + BUFFER)
      own(child) == child = Spacer(by, "topSpacer") \/ child = Spacer(by, "bottomSpacer")
      kept == SelectSeq(children,
                LAMBDA child : own(child)
                               \/ ~(child.idx = -1 \/ child.idx < startIdx \/ child.idx >= endIdx))
      existing == {kept[k].idx : k \in {j \in 1..Len(kept) : ~own(kept[j])}}
      made == newBlocks(by, filteredPrompts, existing, startIdx, endIdx)
      before == SelectSeq(kept, LAMBDA child : child # Spacer(by, "bottomSpacer"))
  IN  before \o made \o <<Spacer(by, "bottomSpacer")>>

\* renderPrompts() up to its Promise.all (lines 6-28)
renderPrompts(category, viewMode, clientHeight) ==
  /\ Len(renders) < MaxRenders
  /\ promptList' = <<>>
  /\ renders' = Append(renders,
                  RenderCall(category, viewMode, clientHeight,
                             {r \in 1..Len(renders) : renders[r].state = "fetching"},
                             "fetching", <<>>))
  /\ UNCHANGED <<listeners, windowApp, clicked>>
  /\ UNCHANGED nonListVars

\* The fetches of a call resolved: the then-callback of lines 29-308
PromptsFetched(r) ==
  /\ r \in 1..Len(renders)
  /\ renders[r].state = "fetching"
  /\ LET filteredPrompts == filterPrompts(AllPrompts, renders[r].category)
     IN  /\ renders' = [renders EXCEPT ![r].state = "rendered",
                                       ![r].filteredPrompts = filteredPrompts]
         /\ windowApp' = filteredPrompts
         /\ IF filteredPrompts = <<>>
            THEN /\ promptList' = <<Message(r, "empty")>>
                 /\ UNCHANGED listeners
            ELSE /\ promptList' =
                      renderVisible(promptList \o <<Spacer(r, "topSpacer"),
                                                    Spacer(r, "bottomSpacer")>>,
                                    r, renders[r], filteredPrompts)
                 /\ listeners' = Append(listeners, r)
  /\ UNCHANGED clicked
  /\ UNCHANGED nonListVars

\* A fetch of a call failed: the catch-callback of lines 309-312
PromptsFailed(r) ==
  /\ r \in 1..Len(renders)
  /\ renders[r].state = "fetching"
  /\ renders' = [renders EXCEPT ![r].state = "failed"]
  /\ promptList' = <<Message(r, "error")>>
  /\ UNCHANGED <<listeners, windowApp, clicked>>
  /\ UNCHANGED nonListVars

ClickTargets == {"prompt-block", "edit-btn", "delete-btn"}

Event(type, prompt) == [type |-> type, prompt |-> prompt]

\* The click handler one call attached (lines 222-256), run for a click on the
\* given target of a block: the events it dispatches
onBlockClick(by, block, target) ==
  LET filteredPrompts == renders[by].filteredPrompts
  IN  IF block.idx + 1 \notin 1..Len(filteredPrompts) THEN <<>>
      ELSE LET prompt == filteredPrompts[block.idx + 1]
           IN  <<Event(IF target = "prompt-block" THEN "openPromptModal"
                       ELSE IF target = "edit-btn" THEN "prompt:edit"
                       ELSE "prompt:delete", prompt)>>

\* Every click handler attached to #prompt-list runs, in the order attached
RECURSIVE dispatchClick(_, _, _)
dispatchClick(handlers, block, target) ==
  IF handlers = <<>> THEN <<>>
  ELSE onBlockClick(Head(handlers), block, target)
       \o dispatchClick(Tail(handlers), block, target)

NoClick == [block |-> Message(0, "none"), target |-> "", events |-> <<>>]

\* The user clicks once on a prompt block of the list, or on a button of it
Click(k, target) ==
  /\ k \in 1..Len(promptList)
  /\ promptList[k].kind = "block"
  /\ clicked' = [block |-> promptList[k], target |-> target,
                 events |-> dispatchClick(listeners, promptList[k], target)]
  /\ UNCHANGED <<promptList, listeners, renders, windowApp>>
  /\ UNCHANGED nonListVars

\* The page before the first renderPrompts() call
IdleList ==
  /\ promptList = <<>>
  /\ listeners = <<>>
  /\ renders = <<>>
  /\ windowApp = <<>>
  /\ clicked = NoClick

-----------------------------------------------------------------------------
(* api/comments.php, api/prompts.php, api/api_utils.php: create (POST) on a   *)
(* flat file.  Each request is a PHP process; a step is one file operation.  *)
(* A file is an inode with a content; a name of the directory leads to an    *)
(* inode, and an open handle keeps its inode whatever the names do.          *)

Requests == {"r1", "r2"}
Endpoints == {"comments", "prompts"}

\* No inode: the name does not exist, or no handle is open
NoInode == 0

\* The content of a file: a JSON array of records, nothing, or bytes that
\* json_decode cannot parse
Json(records) == [kind |-> "json", records |-> records]
EmptyFile == [kind |-> "empty", records |-> <<>>]
CorruptFile == [kind |-> "corrupt", records |-> <<>>]

\* read_comments / read_json_file_with_log: the array read, [] when the file
\* does not exist or does not hold a JSON array
readRecords(dir, nodes) ==
  IF dir.data = NoInode THEN <<>>
  ELSE IF nodes[dir.data].kind # "json" THEN <<>>
  ELSE nodes[dir.data].records

\* fwrite($fp, $json) on a handle opened with mode 'w': the bytes go to the
\* start of the file.  Over bytes another handle has written since the file
\* was truncated, the result is the new JSON when it is at least as long, and
\* the new JSON followed by the rest of the old bytes otherwise.
writtenOver(content, records) ==
  IF content.kind = "empty" \/ content = Json(records) THEN {Json(records)}
  ELSE {Json(records), CorruptFile}

Post(pc, records, fp, status) == [pc |-> pc, records |-> records, fp |-> fp, status |-> status]

\* $comments = read_comments(...); $comments[] = $newComment (part_003 lines
\* 121-130; prompts.php lines 293-305).  The new record is known by its request.
ReadFile(r) ==
  /\ posts[r].pc = "read"
  /\ posts' = [posts EXCEPT ![r] =
                Post("open", Append(readRecords(directory, inodes), r), NoInode, 0)]
  /\ UNCHANGED <<endpoint, directory, inodes>>
  /\ UNCHANGED nonPostVars

\* fopen($tmpFile, 'w'): the .tmp file is made, or emptied when it exists
OpenTmp(r) ==
  /\ posts[r].pc = "open"
  /\ IF directory.tmp = NoInode
     THEN /\ inodes' = Append(inodes, EmptyFile)
          /\ directory' = [directory EXCEPT !.tmp = Len(inodes) + 1]
     ELSE /\ inodes' = [inodes EXCEPT ![directory.tmp] = EmptyFile]
          /\ UNCHANGED directory
  /\ posts' = [posts EXCEPT ![r].pc = "write", ![r].fp = directory'.tmp]
  /\ UNCHANGED endpoint
  /\ UNCHANGED nonPostVars

\* flock(LOCK_EX), fwrite, fflush, flock(LOCK_UN), fclose on the handle
WriteTmp(r) ==
  /\ posts[r].pc = "write"
  /\ \E content \in writtenOver(inodes[posts[r].fp], posts[r].records) :
       inodes' = [inodes EXCEPT ![posts[r].fp] = content]
  /\ posts' = [posts EXCEPT ![r].pc = "rename", ![r].fp = NoInode]
  /\ UNCHANGED <<endpoint, directory>>
  /\ UNCHANGED nonPostVars

\* rename($tmpFile, $file) and the response: 201, or 500 when the comments
\* endpoint finds that the rename failed (prompts.php does not look at the
\* result of the write)
RenameTmp(r) ==
  /\ posts[r].pc = "rename"
  /\ IF directory.tmp = NoInode
     THEN /\ UNCHANGED directory
          /\ posts' = [posts EXCEPT ![r].pc = "done",
                                    ![r].status = IF endpoint = "comments" THEN 500 ELSE 201]
     ELSE /\ directory' = [data |-> directory.tmp, tmp |-> NoInode]
          /\ posts' = [posts EXCEPT ![r].pc = "done", ![r].status = 201]
  /\ UNCHANGED <<endpoint, inodes>>
  /\ UNCHANGED nonPostVars

\* No request, for the specifications that make none
IdlePost ==
  /\ endpoint = "comments"
  /\ directory = [data |-> NoInode, tmp |-> NoInode]
  /\ inodes = <<>>
  /\ posts = [r \in Requests |-> Post("done", <<>>, NoInode, 0)]

-----------------------------------------------------------------------------
(* The documents, queries and filters the search engine is exercised with *)

Doc(id, title, description, content, tags, category, updated_at, created_at) ==
  [id |-> id, title |-> title, description |-> description, content |-> content,
   tags |-> tags, category |-> category, updated_at |-> updated_at,
   created_at |-> created_at]

\* Well-formed documents.  p1 and p5 have the same text, so they tie on every query.
p1 == Doc("p1", Str(<<"A", " ", "b">>), Str(<<"c", " ", "c">>), Str(<<"a", "!", "b">>),
          Arr(<< <<"a">> >>), Str(<<"x">>), Str(<<"2">>), Str(<<"1">>))
p2 == Doc("p2", Str(<<"b">>), Undef, Str(<<"a", "a", "a">>),
          Arr(<< <<"a">>, <<"b">> >>), Str(<<"x">>), Undef, Str(<<"3">>))
p5 == Doc("p5", Str(<<"a", " ", "B">>), Str(<<"c", " ", "c">>), Str(<<"a", "!", "b">>),
          Arr(<< <<"a">> >>), Str(<<"x">>), Str(<<"2", "n">>), Undef)
\* No tags and no dates.
p3 == Doc("p3", Str(<<"c">>), Undef, Undef, Undef, Str(<<"y">>), Undef, Undef)
\* Wrong-typed fields: a number as title and as category, a string as tags,
\* a date text that does not parse.
p4 == Doc("p4", Num(7), Undef, Str(<<"a">>), Str(<<"a">>), Num(1), Str(<<"z">>), Undef)
\* An array as description.
p6 == Doc("p6", Str(<<"a">>), Arr(<<>>), Undef, Arr(<<>>), Undef, Num(5), Undef)

Collections ==
  { <<p1, p2, p3>>, <<p2, p5, p1>>, <<p1, p3, p5>>, <<p4, p1>>, <<p6, p2>>, <<>> }

Queries ==
  { <<>>, <<" ", "!", " ">>, <<"a">>, <<"A", " ", "b">>, <<"b", " ", " ", "a">>,
    <<"a", "a", "b">>, <<"b", "b", "b">>, <<"c">>, <<"a", " ", "a">>, <<"a", "a">> }

\* A filters object of plain values, which JSON.stringify serializes.
Filters(category, tags, dateRange) ==
  [category |-> category, tags |-> tags, dateRange |-> dateRange, json |-> "ok"]

NoFilters == Filters(Undef, Undef, NoRange)

\* A filters object with one more key, whose value is the object itself:
\* JSON.stringify throws a TypeError on it.
CyclicFilters == [NoFilters EXCEPT !.json = "throws"]

\* A function given as filters: it has no keys, and JSON.stringify returns
\* undefined for it.
FunctionFilters == [NoFilters EXCEPT !.json = "undefined"]

FilterSpecs ==
  { NoFilters,
    Filters(Str(<<"x">>), Undef, NoRange),
    Filters(Num(1), Undef, NoRange),
    Filters(Undef, Arr(<< <<"a">> >>), NoRange),
    Filters(Undef, Arr(<< <<"a">>, <<"b">> >>), NoRange),
    Filters(Undef, Undef, Range(Str(<<"2">>), Undef)),
    Filters(Undef, Undef, Range(Undef, Str(<<"2">>))),
    Filters(Undef, Undef, Range(Str(<<"z">>), Undef)),
    Filters(Str(<<"x">>), Arr(<< <<"a">>, <<"b">> >>), NoRange),
    Filters(Str(<<"y">>), Arr(<< <<"a">> >>), NoRange) }

Args(allPrompts, searchQuery, filters, fuzzy, useCache) ==
  [allPrompts |-> allPrompts, searchQuery |-> searchQuery, filters |-> filters,
   fuzzy |-> fuzzy, useCache |-> useCache]

SearchInputs ==
  { Args(c, q, f, z, u) : c \in Collections, q \in Queries, f \in FilterSpecs,
                          z \in BOOLEAN, u \in BOOLEAN }

NotCalled == [status |-> "none", hit |-> FALSE, results |-> <<>>, highlightTerms |-> <<>>]

-----------------------------------------------------------------------------
(* SpecSearch: one search() call, its arguments drawn by Init, on an empty cache *)

\* A scroller over no items, for the specifications that leave it alone.
IdleScroller ==
  LET r == construct([scrollTop |-> 0, clientHeight |-> 0, children |-> <<>>,
                      listening |-> FALSE], <<>>, 0, 0, FALSE)
  IN  /\ scroller = r.s
      /\ container = r.c
      /\ rafQueue = 0
      /\ vsCall = Called("constructor", <<>>)
      /\ vsThrew = FALSE
      /\ vsLog = <<>>
      /\ destroyed = FALSE

InitSearch ==
  /\ IdleScroller
  /\ IdleFetch
  /\ IdleDedup
  /\ IdlePost
  /\ IdleList
  /\ IdleBatch
  /\ IdleLru
  /\ IdleWords
  /\ searchCache = <<>>
  /\ call \in SearchInputs
  /\ ret = NotCalled
  /\ lastOp = "none"

SearchDrawn ==
  /\ ret.status = "none"
  /\ search(call.allPrompts, call.searchQuery, call.filters, call.fuzzy, call.useCache)
  /\ lastOp' = "search"
  /\ UNCHANGED call
  /\ UNCHANGED nonSearchVars

-----------------------------------------------------------------------------
(* SpecCache: any sequence of search() and clearSearchCache() calls, starting *)
(* with the cache holding the results of NFill earlier searches             *)

\* How many distinct searches were made before the first state.
NFill == 99

fillerQuery(i) == [j \in 1..i |-> "z"]

fillerEntry(i) ==
  LET out == CHOOSE o \in computeResults(<<p1, p2, p3>>, fillerQuery(i), NoFilters, FALSE) : TRUE
  IN  [key |-> cacheKey(fillerQuery(i), NoFilters, FALSE), value |-> out.value]

CacheInputs ==
  { Args(c, q, NoFilters, FALSE, u) :
      c \in { <<p1, p2, p3>>, <<p2, p5, p1>> },
      q \in { <<"a">>, <<" ", "a">>, <<"b">>, <<"z">> },
      u \in BOOLEAN }

InitCache ==
  /\ IdleScroller
  /\ IdleFetch
  /\ IdleDedup
  /\ IdlePost
  /\ IdleList
  /\ IdleBatch
  /\ IdleLru
  /\ IdleWords
  /\ searchCache = [i \in 1..NFill |-> fillerEntry(i)]
  /\ call = Args(<<>>, <<>>, NoFilters, FALSE, FALSE)
  /\ ret = NotCalled
  /\ lastOp = "none"

SearchAny ==
  \E a \in CacheInputs :
    /\ call' = a
    /\ search(a.allPrompts, a.searchQuery, a.filters, a.fuzzy, a.useCache)
    /\ lastOp' = "search"
    /\ UNCHANGED nonSearchVars

-----------------------------------------------------------------------------

(* SpecScroller: one VirtualScroller, constructed by Init over any of the item *)
(* lists and options, then scrolled, resized, updated and destroyed          *)

InitScroller ==
  /\ searchCache = <<>>
  /\ call = Args(<<>>, <<>>, NoFilters, FALSE, FALSE)
  /\ ret = NotCalled
  /\ lastOp = "none"
  /\ \E items \in ItemLists, h \in {0, 2}, b \in {0, 1}, fn \in BOOLEAN, ch \in ClientHeights :
       LET r == construct([scrollTop |-> 0, clientHeight |-> ch, children |-> <<>>,
                           listening |-> FALSE], items, h, b, fn)
       IN  scroller = r.s /\ container = r.c /\ vsThrew = r.threw /\ vsLog = r.log
  /\ rafQueue = 0
  /\ vsCall = Called("constructor", <<>>)
  /\ destroyed = FALSE
  /\ IdleFetch
  /\ IdleDedup
  /\ IdlePost
  /\ IdleList
  /\ IdleBatch
  /\ IdleLru
  /\ IdleWords

NextScroller ==
  \/ \E pos \in ScrollPositions : Scroll(pos)
  \/ \E height \in ClientHeights : Resize(height)
  \/ AnimationFrame
  \/ UpdateViewport
  \/ \E newItems \in ItemLists : UpdateItems(newItems)
  \/ Destroy

vars == <<searchCache, call, ret, lastOp, scroller, container, rafQueue, vsCall, vsThrew,
          vsLog, destroyed,
          windowIds, containers, blocks, inflight, ongoingRequests, promises, calls,
          fnCall,
          lruCache, lruCapacity, lruCall, lruUses,
          batch, timeoutId, submitted, dispatched,
          promptList, listeners, renders, windowApp, clicked,
          endpoint, directory, inodes, posts>>

SpecScroller == InitScroller /\ [][NextScroller]_vars

NextSearch == SearchDrawn \/ clearSearchCache
SpecSearch == InitSearch /\ [][NextSearch]_vars

NextCache == SearchAny \/ clearSearchCache
SpecCache == InitCache /\ [][NextCache]_vars

\* No search made, for the specifications that make none.
IdleSearch ==
  /\ searchCache = <<>>
  /\ call = Args(<<>>, <<>>, NoFilters, FALSE, FALSE)
  /\ ret = NotCalled
  /\ lastOp = "none"

(* SpecSession: any sequence of search() and clearSearchCache() calls over one *)
(* collection, from an empty cache, with filters that do and do not          *)
(* serialize, the caller changing at will the object a search returned       *)

SessionDocs == <<p1, p2, p3>>

SessionInputs ==
  { Args(SessionDocs, q, f, FALSE, u) :
      q \in { <<"a">> },
      f \in { NoFilters, CyclicFilters, FunctionFilters },
      u \in BOOLEAN }

Mutations == {"pop", "title", "terms"}

\* What a statement of the caller makes of the returned object:
\* results.pop(), results[0].title = 'z', highlightTerms.length = 0
mutate(value, mutation) ==
  CASE mutation = "pop" ->
         [value EXCEPT !.results = SubSeq(value.results, 1, Len(value.results) - 1)]
    [] mutation = "title" ->
         IF value.results = <<>> THEN value
         ELSE [value EXCEPT !.results[1].title = Str(<<"z">>)]
    [] mutation = "terms" -> [value EXCEPT !.highlightTerms = <<>>]

\* The entry under key holds another value: it is the object that was changed.
cacheReplace(cache, key, value) ==
  [i \in 1..Len(cache) |-> IF cache[i].key = key THEN [key |-> key, value |-> value]
                                                 ELSE cache[i]]

SearchSession ==
  \E a \in SessionInputs :
    /\ call' = a
    /\ search(a.allPrompts, a.searchQuery, a.filters, a.fuzzy, a.useCache)
    /\ lastOp' = "search"
    /\ UNCHANGED nonSearchVars

\* The caller changes the object the last search() returned.  With useCache
\* that object is the one search() stored in (line 273) or took from (line 232)
\* the cache, and no call has been made since.
MutateReturned(mutation) ==
  /\ lastOp \in {"search", "mutate"}
  /\ ret.status = "returned"
  /\ LET key == cacheKey(trim(call.searchQuery), call.filters, call.fuzzy)
         old == [results |-> ret.results, highlightTerms |-> ret.highlightTerms]
         new == mutate(old, mutation)
     IN  /\ new # old
         /\ ret' = [ret EXCEPT !.results = new.results,
                               !.highlightTerms = new.highlightTerms]
         /\ searchCache' = IF call.useCache /\ cacheHas(searchCache, key)
                           THEN cacheReplace(searchCache, key, new)
                           ELSE searchCache
  /\ lastOp' = "mutate"
  /\ UNCHANGED call
  /\ UNCHANGED nonSearchVars

InitSession == IdleSearch /\ IdleScroller /\ IdleFetch /\ IdleDedup /\ IdlePost /\ IdleList /\ IdleBatch /\ IdleLru /\ IdleWords

NextSession ==
  \/ SearchSession
  \/ clearSearchCache
  \/ \E mutation \in Mutations : MutateReturned(mutation)

SpecSession == InitSession /\ [][NextSession]_vars

(* SpecFetch: any renderCommentsResults() and renderPromptBlock() calls, their *)
(* fetches succeeding or failing in any order                                 *)

InitFetch == IdleSearch /\ IdleScroller /\ IdleFetch /\ IdleDedup /\ IdlePost /\ IdleList /\ IdleBatch /\ IdleLru /\ IdleWords

NextFetch ==
  \/ \E promptId \in PromptIds, c \in ContainerIds : renderCommentsResults(promptId, c)
  \/ \E r \in inflight : CommentsFetched(r)
  \/ \E r \in inflight : CommentsFailed(r)
  \/ \E promptId \in PromptIds : renderPromptBlock(promptId)
  \/ \E r \in inflight, ok \in BOOLEAN : BlockResultsSettled(r, ok)
  \/ \E r \in inflight, ok \in BOOLEAN : BlockCommentsSettled(r, ok)

SpecFetch == InitFetch /\ [][NextFetch]_vars

(* SpecWords: one call of levenshteinDistance or of termMatches, its arguments *)
(* drawn by Init                                                              *)

InitWords ==
  /\ IdleSearch /\ IdleScroller /\ IdleFetch /\ IdleDedup /\ IdlePost /\ IdleList /\ IdleLru /\ IdleBatch
  /\ fnCall \in {FnCall("levenshteinDistance", s1, s2, <<>>, FALSE, 0) : s1 \in Words, s2 \in Words}
              \cup {FnCall("termMatches", term, <<>>, tokens, fuzzy, t) :
                       term \in Words, tokens \in TokenLists, fuzzy \in BOOLEAN,
                       t \in Thresholds}

NextWords == CallLevenshtein \/ CallTermMatches

SpecWords == InitWords /\ [][NextWords]_vars

(* SpecDedup: any deduplicateRequest() calls, the work behind them succeeding  *)
(* or failing at any time; a callback that is ready to run does run           *)

InitDedup == IdleSearch /\ IdleScroller /\ IdleFetch /\ IdleDedup /\ IdlePost /\ IdleList /\ IdleBatch /\ IdleLru /\ IdleWords

NextDedup ==
  \/ \E k \in RequestKeys, fn \in RequestFns : deduplicateRequest(k, fn)
  \/ \E p \in 1..MaxCalls, ok \in BOOLEAN : WorkSettles(p, ok)
  \/ \E p \in 1..MaxCalls : SettleCallback(p)
  \/ \E p \in 1..MaxCalls : PromiseSettles(p)

SpecDedup ==
  /\ InitDedup
  /\ [][NextDedup]_vars
  /\ \A p \in 1..MaxCalls : WF_vars(SettleCallback(p)) /\ WF_vars(PromiseSettles(p))

(* SpecLru: one LRUCache of any capacity from 1 to MaxCapacity, and any *)
(* sequence of get, put, delete and clear on it                         *)

InitLru ==
  /\ IdleSearch /\ IdleScroller /\ IdleFetch /\ IdleDedup /\ IdlePost /\ IdleList /\ IdleWords /\ IdleBatch
  /\ lruCache = <<>>
  /\ lruCapacity \in 1..MaxCapacity
  /\ lruCall = NoLruCall
  /\ lruUses = <<>>

NextLru ==
  \/ \E key \in LruKeys : LruGet(key)
  \/ \E key \in LruKeys, value \in LruValues : LruPut(key, value)
  \/ \E key \in LruKeys : LruDelete(key)
  \/ LruClear

SpecLru == InitLru /\ [][NextLru]_vars

(* SpecBatch: one requester made by createBatchRequester; the timer fires *)
(* when its delay has passed                                             *)

InitBatch == IdleSearch /\ IdleScroller /\ IdleFetch /\ IdleDedup /\ IdlePost /\ IdleList /\ IdleWords /\ IdleLru /\ IdleBatch

NextBatch ==
  \/ \E item \in BatchItems : Submit(item)
  \/ Tick
  \/ \E throws \in BOOLEAN : TimerFires(throws)
  \/ \E c \in 1..MaxItems, outcome \in ProcessorOutcomes : ProcessorSettles(c, outcome)

SpecBatch ==
  /\ InitBatch
  /\ [][NextBatch]_vars
  /\ WF_vars(Tick)
  /\ WF_vars(\E throws \in BOOLEAN : TimerFires(throws))

(* SpecList: renderPrompts() called again and again on one page, its fetches *)
(* resolving in any order, and clicks on the blocks shown                   *)

InitList ==
  /\ IdleSearch /\ IdleScroller /\ IdleFetch /\ IdleDedup /\ IdlePost /\ IdleWords /\ IdleLru /\ IdleBatch
  /\ IdleList

NextList ==
  \/ \E category \in CategoryParams, viewMode \in ViewModes, h \in PromptListHeights :
       renderPrompts(category, viewMode, h)
  \/ \E r \in 1..MaxRenders : PromptsFetched(r)
  \/ \E r \in 1..MaxRenders : PromptsFailed(r)
  \/ \E k \in 1..(2 * MaxRenders + Len(AllPrompts)), target \in ClickTargets : Click(k, target)

SpecList == InitList /\ [][NextList]_vars

(* SpecPost: two POST requests to one endpoint, received together, over a *)
(* data file that is missing, empty or holds records                     *)

InitialFiles == {<<>>, <<Json(<<>>)>>, <<Json(<<"r0">>)>>, <<EmptyFile>>}

InitPost ==
  /\ IdleSearch /\ IdleScroller /\ IdleFetch /\ IdleDedup /\ IdleWords /\ IdleLru /\ IdleBatch
  /\ IdleList
  /\ endpoint \in Endpoints
  /\ inodes \in InitialFiles
  /\ directory = [data |-> Len(inodes), tmp |-> NoInode]
  /\ posts = [r \in Requests |-> Post("read", <<>>, NoInode, 0)]

NextPost ==
  \E r \in Requests : ReadFile(r) \/ OpenTmp(r) \/ WriteTmp(r) \/ RenameTmp(r)

SpecPost == InitPost /\ [][NextPost]_vars

-----------------------------------------------------------------------------
(* Claims about search() *)

callTokens == tokenizeAndNormalize(Str(trim(call.searchQuery)))
callKey == cacheKey(trim(call.searchQuery), call.filters, call.fuzzy)

\* The score the call's query gives a document.
callScore(p) == calculateScore(p, callTokens, call.fuzzy).score

\* The positions of call.allPrompts whose document passes the call's filters.
passing == {i \in 1..Len(call.allPrompts) : passesFilters(call.allPrompts[i], call.filters)}

effectiveDate(p) == newDate(OrElse(p.updated_at, p.created_at))

\* results lists exactly the documents at the positions `wanted`, each once,
\* in an order that Before allows for every two neighbours.
listsExactly(results, wanted, Before(_, _)) ==
  \E e \in [1..Len(results) -> 1..Len(call.allPrompts)] :
    /\ \A k \in 1..Len(results) : results[k] = call.allPrompts[e[k]]
    /\ \A k, l \in 1..Len(results) : e[k] = e[l] => k = l
    /\ {e[k] : k \in 1..Len(results)} = wanted
    /\ \A k \in 1..(Len(results) - 1) : Before(e[k], e[k + 1])

\* C1: every search() call made with useCache = true returns the results and
\* highlightTerms that the same call (same collection, query, filters and fuzzy
\* flag) returns with useCache = false.
C1_CacheTransparent ==
  (lastOp = "search" /\ call.useCache /\ ret.status = "returned")
    => \E out \in computeResults(call.allPrompts, call.searchQuery, call.filters, call.fuzzy) :
         /\ ~out.threw
         /\ out.value.results = ret.results
         /\ out.value.highlightTerms = ret.highlightTerms

\* C2: for a query with at least one token, search() on a cache miss returns
\* exactly the documents that pass the filters and score at least the threshold,
\* by falling score, documents of equal score in their input order.
C2_RankedResults ==
  (ret.status = "returned" /\ ~ret.hit /\ Len(callTokens) > 0)
    => listsExactly(ret.results,
                    {i \in passing : callScore(call.allPrompts[i]) * 10 >= SCORE_THRESHOLD_TENTHS},
                    LAMBDA i, j :
                      \/ callScore(call.allPrompts[i]) > callScore(call.allPrompts[j])
                      \/ /\ callScore(call.allPrompts[i]) = callScore(call.allPrompts[j])
                         /\ i < j)

\* A ranked result with a tie, a strictly lower score, and a zero-score document left out.
C2_Witness ==
  /\ ret.status = "returned" /\ ~ret.hit /\ Len(callTokens) > 0
  /\ \E k \in 1..(Len(ret.results) - 1) : callScore(ret.results[k]) = callScore(ret.results[k + 1])
  /\ \E i \in passing : callScore(call.allPrompts[i]) = 0
  /\ hasKeys(call.filters)

\* C3: for a query without tokens, search() returns every document that passes
\* the filters, by falling updated_at (created_at when updated_at is absent),
\* and highlightTerms is empty.
C3_RecencyOrder ==
  (ret.status = "returned" /\ ~ret.hit /\ Len(callTokens) = 0)
    => /\ ret.highlightTerms = <<>>
       /\ listsExactly(ret.results, passing, LAMBDA i, j : TRUE)
       /\ \A k, l \in 1..Len(ret.results) :
            (/\ k < l
             /\ effectiveDate(ret.results[k]).valid
             /\ effectiveDate(ret.results[l]).valid)
              => effectiveDate(ret.results[k]).t >= effectiveDate(ret.results[l]).t

\* C4: the cache never holds more than CACHE_MAX_SIZE entries, and
\* clearSearchCache() leaves it empty.
C4_CacheBounded ==
  /\ Len(searchCache) <= CACHE_MAX_SIZE
  /\ lastOp = "clearSearchCache" => searchCache = <<>>

\* A full cache right after a miss evicted the oldest of the earlier searches.
C4_Witness ==
  /\ Len(searchCache) = CACHE_MAX_SIZE
  /\ lastOp = "search" /\ call.useCache /\ ~ret.hit
  /\ ~cacheHas(searchCache, cacheKey(fillerQuery(1), NoFilters, FALSE))

\* C5: a miss on a full cache evicts exactly the entry inserted earliest and
\* appends the new one; a miss on a cache with room only appends; a hit leaves
\* the cache, and so the order of eviction, as it is.
C5_FifoStep ==
  lastOp' = "search" =>
    /\ ret'.hit => searchCache' = searchCache
    /\ (call'.useCache /\ ret'.status = "returned" /\ ~ret'.hit) =>
         LET new == [key |-> cacheKey(trim(call'.searchQuery), call'.filters, call'.fuzzy),
                     value |-> [results |-> ret'.results,
                                highlightTerms |-> ret'.highlightTerms]]
         IN  IF Len(searchCache) >= CACHE_MAX_SIZE
             THEN searchCache' = Append(Tail(searchCache), new)
             ELSE searchCache' = Append(searchCache, new)
    /\ (~call'.useCache \/ ret'.status = "threw") => searchCache' = searchCache

C5_FifoEviction == [][C5_FifoStep]_vars

\* The oldest key was evicted by a miss on the full cache and then missed itself:
\* it is back as the newest entry, and the second oldest key has gone too.
C5_Witness ==
  /\ Len(searchCache) = CACHE_MAX_SIZE
  /\ searchCache[Len(searchCache)].key = cacheKey(fillerQuery(1), NoFilters, FALSE)
  /\ ~cacheHas(searchCache, cacheKey(fillerQuery(2), NoFilters, FALSE))
  /\ lastOp = "search" /\ ~ret.hit

\* C6: search() never throws, whatever the type of a document's fields.
C6_NeverThrows == ret.status # "threw"

\* The elements of an array
elements(v) == {v.a[i] : i \in 1..Len(v.a)}

\* The document has a tags array that holds every tag of T.
hasAllTags(p, T) == p.tags.t = "array" /\ elements(T) \subseteq elements(p.tags)

passesOtherFilters(p, filters) ==
  /\ categoryActive(filters) => categoryPasses(p, filters)
  /\ dateActive(filters) => datePasses(p, filters)

inSeq(x, seq) == \E k \in 1..Len(seq) : seq[k] = x

\* C14: for a non-empty tag filter T, applyFilters returns exactly the documents
\* that have a tags array holding every tag of T and that pass the other active
\* filters; every document search() returns has all tags of T, and for a query
\* without tokens search() returns all of those documents.
C14_TagFilterAnd ==
  (lastOp = "search" /\ call.filters.tags.t = "array" /\ Len(call.filters.tags.a) > 0)
    => /\ \A i \in 1..Len(call.allPrompts) :
            inSeq(call.allPrompts[i], applyFilters(call.allPrompts, call.filters))
              <=> /\ hasAllTags(call.allPrompts[i], call.filters.tags)
                  /\ passesOtherFilters(call.allPrompts[i], call.filters)
       /\ ret.status = "returned" =>
            \A k \in 1..Len(ret.results) : hasAllTags(ret.results[k], call.filters.tags)
       /\ (ret.status = "returned" /\ Len(callTokens) = 0) =>
            \A i \in 1..Len(call.allPrompts) :
              (/\ hasAllTags(call.allPrompts[i], call.filters.tags)
               /\ passesOtherFilters(call.allPrompts[i], call.filters))
                => inSeq(call.allPrompts[i], ret.results)

\* A search with a filter of two tags and a category returned a document and
\* left out a document of that category that has one of the two tags only.
C14_Witness ==
  /\ lastOp = "search" /\ ret.status = "returned"
  /\ call.filters.tags.t = "array" /\ Len(call.filters.tags.a) = 2
  /\ categoryActive(call.filters)
  /\ ret.results # <<>>
  /\ \E i \in 1..Len(call.allPrompts) :
       /\ ~inSeq(call.allPrompts[i], ret.results)
       /\ categoryPasses(call.allPrompts[i], call.filters)
       /\ call.allPrompts[i].tags.t = "array"
       /\ elements(call.allPrompts[i].tags) \cap elements(call.filters.tags) # {}

ScoredFields == {"title", "description", "content", "tags"}

fieldWeight(f) ==
  CASE f = "title" -> 10 [] f = "description" -> 5 [] f = "content" -> 3 [] f = "tags" -> 7

\* The tokens of a field of a document; those of tags are the tokens of its
\* elements, and a field of another type than expected has none.
fieldTokensOf(p, f) ==
  IF f = "tags"
  THEN IF p.tags.t = "array" THEN tokenizeAndNormalize(Str(joinSpace(p.tags.a))) ELSE <<>>
  ELSE tokenizeAndNormalize(p[f])

\* The k-th token of the call's query matches field f of document p.
fieldMatches(p, f, k) ==
  termMatches(callTokens[k], fieldTokensOf(p, f), call.fuzzy, FUZZY_MATCH_THRESHOLD)

RECURSIVE sumOfWeights(_)
sumOfWeights(pairs) ==
  IF pairs = {} THEN 0
  ELSE LET x == CHOOSE y \in pairs : TRUE
       IN  fieldWeight(x[2]) + sumOfWeights(pairs \ {x})

\* The lower-cased text of field f holds the call's tokens joined by spaces.
holdsPhrase(p, f) ==
  p[f].t = "string" /\ includes(toLowerCase(p[f].s), joinSpace(callTokens))

expectedScore(p) ==
    sumOfWeights({x \in (1..Len(callTokens)) \X ScoredFields : fieldMatches(p, x[2], x[1])})
  + 5 * Cardinality({callTokens[k] : k \in {j \in 1..Len(callTokens) :
                                              \E f \in ScoredFields : fieldMatches(p, f, j)}})
  + (IF holdsPhrase(p, "title") THEN 20
     ELSE IF holdsPhrase(p, "description") THEN 15
     ELSE IF holdsPhrase(p, "content") THEN 10
     ELSE 0)

RECURSIVE editDistance(_, _)
editDistance(a, b) ==
  IF a = <<>> THEN Len(b)
  ELSE IF b = <<>> THEN Len(a)
  ELSE Min2(Min2(editDistance(Tail(a), b) + 1, editDistance(a, Tail(b)) + 1),
            editDistance(Tail(a), Tail(b)) + (IF Head(a) = Head(b) THEN 0 ELSE 1))

\* C16: a term that matches with fuzzy off matches with fuzzy on; a term present
\* in the tokens matches whatever the flag; and with fuzzy on a term matches
\* exactly when it is present or some token is within edit distance t of it.
C16_FuzzySuperset ==
  (fnCall.fn = "termMatches" /\ fnCall.done)
    => LET present == \E k \in 1..Len(fnCall.tokens) : fnCall.tokens[k] = fnCall.s1
           near == \E k \in 1..Len(fnCall.tokens) :
                     editDistance(fnCall.s1, fnCall.tokens[k]) <= fnCall.threshold
           exact == termMatches(fnCall.s1, fnCall.tokens, FALSE, fnCall.threshold)
           fuzzy == termMatches(fnCall.s1, fnCall.tokens, TRUE, fnCall.threshold)
       IN  /\ exact => fuzzy
           /\ present => (exact /\ fuzzy)
           /\ exact = present
           /\ fuzzy = (present \/ near)
           /\ fnCall.matched = IF fnCall.fuzzy THEN fuzzy ELSE exact

\* A term one character longer than a token, as 'reactt' is to 'react': it
\* matched with fuzzy on and threshold 2, and does not match with fuzzy off.
C16_Witness ==
  /\ fnCall.fn = "termMatches" /\ fnCall.done
  /\ fnCall.fuzzy /\ fnCall.threshold = FUZZY_MATCH_THRESHOLD
  /\ fnCall.matched
  /\ \E k \in 1..Len(fnCall.tokens) : fnCall.s1 = Append(fnCall.tokens[k], "b")
  /\ ~termMatches(fnCall.s1, fnCall.tokens, FALSE, fnCall.threshold)

\* C17: levenshteinDistance(a, b) is the classic edit distance of a and b, the
\* empty string included; so it is symmetric and 0 for equal strings.
C17_EditDistance ==
  (fnCall.fn = "levenshteinDistance" /\ fnCall.done)
    => /\ fnCall.distance = editDistance(fnCall.s1, fnCall.s2)
       /\ fnCall.distance = levenshteinDistance(fnCall.s2, fnCall.s1)
       /\ levenshteinDistance(fnCall.s1, fnCall.s1) = 0
       /\ fnCall.s1 = fnCall.s2 <=> fnCall.distance = 0

\* A distance that needs an insertion and a replacement: from "ab" to "bab"
\* and its like, two strings of different lengths at distance 2.
C17_Witness ==
  /\ fnCall.fn = "levenshteinDistance" /\ fnCall.done
  /\ Len(fnCall.s1) = 2 /\ Len(fnCall.s2) = 3
  /\ fnCall.distance = 2

\* The value an uncached search with the call's arguments returns
uncached == computeResults(call.allPrompts, call.searchQuery, call.filters, call.fuzzy)

returnedUncached ==
  /\ ret.status = "returned"
  /\ \E out \in uncached : /\ ~out.threw
                           /\ out.value.results = ret.results
                           /\ out.value.highlightTerms = ret.highlightTerms

\* C18: when emitting the analytics record fails, search() still returns what
\* it would have returned, on a hit as on a miss.
C18_AnalyticsFailureSwallowed ==
  (/\ lastOp = "search"
   /\ logSearchQuery(call.filters).threw
   /\ ~(call.useCache /\ stringifyThrows(call.filters)))
    => returnedUncached

\* C19: when the filters cannot be serialized for the cache key, search() leaves
\* the cache alone and returns what an uncached search returns.
C19_KeyFailureSkipsCache ==
  (lastOp = "search" /\ call.useCache /\ stringifyThrows(call.filters))
    => returnedUncached

\* C20: whatever a caller does to an object search() returned, every cache entry
\* stays the value that the search for its key computed, and that is what a
\* later hit returns.
C20_EntriesAreSnapshots ==
  /\ \A i \in 1..Len(searchCache) :
       \E out \in computeResults(SessionDocs, searchCache[i].key.q, searchCache[i].key.f,
                                 searchCache[i].key.fuzzy) :
         ~out.threw /\ out.value = searchCache[i].value
  /\ (lastOp = "search" /\ ret.status = "returned" /\ ret.hit /\ call.allPrompts = SessionDocs)
       => returnedUncached

-----------------------------------------------------------------------------
(* Claims about the VirtualScroller *)

itemCount == Len(scroller.allItems)

\* The sum of the heights of the items before index i
RECURSIVE heightBefore(_)
heightBefore(i) ==
  IF i = 0 THEN 0
  ELSE heightBefore(i - 1) + getItemHeightFn(i - 1, scroller.allItems[i])

\* The offset at which index i is to be positioned
offsetOf(i) == IF scroller.hasHeightFn THEN heightBefore(i) ELSE i * scroller.itemHeight

Ceil(a, b) == (a + b - 1) \div b
MinOf(S) == CHOOSE x \in S : \A y \in S : x <= y

scrollBottom == scroller.scrollTop + scroller.viewportHeight

\* The window by the formula over the fixed item height
formulaStart == Max2(0, (scroller.scrollTop \div scroller.itemHeight) - scroller.bufferSize)
formulaEnd ==
  Min2(itemCount - 1, Ceil(scrollBottom, scroller.itemHeight) + scroller.bufferSize)

\* The window over the cumulative offsets: the first index that reaches below
\* scrollTop (index 0 when none does) less the buffer, up to the first index from
\* there on that starts at or below the bottom of the viewport (the last index
\* when none does) plus the buffer.
reaching == {i \in 0..(itemCount - 1) :
               heightBefore(i) + getItemHeightFn(i, scroller.allItems[i + 1]) > scroller.scrollTop}
offsetStart == Max2(0, (IF reaching = {} THEN 0 ELSE MinOf(reaching)) - scroller.bufferSize)
below == {i \in offsetStart..(itemCount - 1) : heightBefore(i) >= scrollBottom}
offsetEnd ==
  Min2(itemCount - 1,
       (IF itemCount = 0 THEN 0 ELSE IF below = {} THEN itemCount - 1 ELSE MinOf(below))
         + scroller.bufferSize)

windowStart == IF scroller.hasHeightFn THEN offsetStart ELSE formulaStart
windowEnd == IF scroller.hasHeightFn THEN offsetEnd ELSE formulaEnd

afterRender == vsCall.op \in {"constructor", "render", "updateItems"}
callbackTotal == \A k \in 1..itemCount : createElement(scroller.allItems[k], k - 1, 0) # Null

inContainerAt(node, top) ==
  \E k \in 1..Len(container.children) :
    container.children[k].node = node /\ container.children[k].top = top

\* renderedItems holds exactly the indices lo..hi, each element in the container
\* at its offset, and the container holds no other element of the renderer.
coversWindow(lo, hi) ==
  /\ DOMAIN scroller.renderedItems = lo..hi
  /\ \A i \in DOMAIN scroller.renderedItems :
       inContainerAt(scroller.renderedItems[i], offsetOf(i))
  /\ \A k \in 1..Len(container.children) :
       container.children[k].node.kind = "item" =>
         \E i \in lo..hi : i \in DOMAIN scroller.renderedItems
                           /\ scroller.renderedItems[i] = container.children[k].node

\* C7 as stated: after every render() pass of a scroller whose callback returns
\* an element for every index, renderedItems holds exactly the indices from
\* max(0, floor(scrollTop/itemHeight) - buffer) to
\* min(itemCount-1, ceil((scrollTop+viewportHeight)/itemHeight) + buffer), each
\* element is in the container at its index's offset, and the container holds no
\* owned element outside that range.
C7_FormulaWindow ==
  (afterRender /\ callbackTotal) => coversWindow(formulaStart, formulaEnd)

\* C7, amended: after every render() pass of a scroller whose callback returns an
\* element for every index, renderedItems holds exactly the indices of the
\* window, which is the one of the formula in fixed-height mode and the one found
\* over the cumulative offsets in variable-height mode; each element is in the
\* container at its index's offset, and the container holds no owned element
\* outside the window.
C7_RenderWindow ==
  (afterRender /\ callbackTotal) => coversWindow(windowStart, windowEnd)

\* A render pass scheduled by a scroll event ran in variable-height mode and left
\* a window that starts after index 0 and ends before the last index.
C7_Witness ==
  /\ vsCall.op = "render"
  /\ callbackTotal
  /\ scroller.hasHeightFn
  /\ scroller.renderedItems # EmptyMap
  /\ 0 \notin DOMAIN scroller.renderedItems
  /\ (itemCount - 1) \notin DOMAIN scroller.renderedItems

\* C8: however many scroll events arrive before the next animation frame, at most
\* one render() call is pending at any time.
C8_OnePendingRender == rafQueue <= 1

\* The elements in the container that the scroller made: the sizer and the items
ownedChildren == SelectSeq(container.children, LAMBDA ch : ch.node.kind \in {"sizer", "item"})

\* C9: once destroy() was called, the scroll listener is detached, the container
\* holds neither the sizer nor any element the renderer made, and renderedItems,
\* allItems and itemPositions are empty, also after a render() scheduled before
\* destroy() has run.
C9_DestroyedStaysReleased ==
  destroyed =>
    /\ ~container.listening
    /\ ownedChildren = <<>>
    /\ scroller.renderedItems = EmptyMap
    /\ scroller.allItems = <<>>
    /\ scroller.itemPositions = <<>>

\* A render() scheduled by a scroll event ran after destroy().
C9_Witness ==
  /\ destroyed
  /\ vsCall.op = "render"

\* What updateItems(newItems) leaves apart from which indices are rendered:
\* allItems is newItems, the total height and (variable-height mode) the offsets
\* are those of newItems, no element of an earlier collection is left in the
\* container or in renderedItems, and every rendered element is the callback's
\* for the new item at its index, in the container.
updatedFrom(newItems) ==
  /\ scroller.allItems = newItems
  /\ scroller.totalContentHeight =
       IF scroller.hasHeightFn THEN heightBefore(itemCount) ELSE itemCount * scroller.itemHeight
  /\ scroller.hasHeightFn =>
       scroller.itemPositions = [k \in 1..itemCount |-> heightBefore(k - 1)]
  /\ \A k \in 1..Len(container.children) :
       container.children[k].node.kind = "item" =>
         container.children[k].node.epoch = scroller.epoch
  /\ \A i \in DOMAIN scroller.renderedItems :
       /\ scroller.renderedItems[i] = createElement(newItems[i + 1], i, scroller.epoch)
       /\ inContainerAt(scroller.renderedItems[i], offsetOf(i))

returnsElement(i) == createElement(scroller.allItems[i + 1], i, scroller.epoch) # Null

\* C10 as stated: after updateItems(newItems), allItems is newItems, the total
\* height and offsets are recomputed, the elements of the previous collection are
\* gone, and the rendered set is exactly the current window over newItems.
C10_WholeWindow ==
  vsCall.op = "updateItems" =>
    /\ updatedFrom(vsCall.items)
    /\ DOMAIN scroller.renderedItems = windowStart..windowEnd

\* C10, amended: after updateItems(newItems), allItems is newItems, the total
\* height and offsets are recomputed, the elements of the previous collection are
\* gone, and the rendered set is exactly the indices of the current window over
\* newItems for which the callback returns an element.
C10_UpdateItems ==
  vsCall.op = "updateItems" =>
    /\ updatedFrom(vsCall.items)
    /\ DOMAIN scroller.renderedItems = {i \in windowStart..windowEnd : returnsElement(i)}

\* updateItems replaced a rendered collection by another one whose window, after
\* a scroll, starts after index 0.
C10_Witness ==
  /\ vsCall.op = "updateItems"
  /\ scroller.epoch = 2
  /\ scroller.renderedItems # EmptyMap
  /\ 0 \notin DOMAIN scroller.renderedItems

\* Whether the container holds an element made for index i of the current items
holdsElementFor(i) ==
  \E k \in 1..Len(container.children) :
    /\ container.children[k].node.kind \notin {"sizer"}
    /\ container.children[k].node.index = i
    /\ container.children[k].node.epoch = scroller.epoch

\* The indices of the window for which the callback's result is falsy or empty
gaps == {i \in windowStart..windowEnd : ~returnsElement(i)}

\* C21: when the item-render callback returns a falsy or empty result for an
\* index of the window, render() throws no exception, the container holds no
\* element or placeholder for that index, the index is not in renderedItems,
\* and every other index of the window is rendered, in the container at its
\* offset.
C21_FalsySkipped ==
  (afterRender /\ gaps # {}) =>
    /\ ~vsThrew
    /\ \A k \in 1..Len(container.children) : container.children[k].node.kind # "null"
    /\ \A i \in gaps : i \notin DOMAIN scroller.renderedItems /\ ~holdsElementFor(i)
    /\ \A i \in (windowStart..windowEnd) \ gaps :
         /\ i \in DOMAIN scroller.renderedItems
         /\ inContainerAt(scroller.renderedItems[i], offsetOf(i))

\* A render pass scheduled by a scroll event met a null result and a blank
\* HTML string inside its window and rendered the indices on both sides.
C21_Witness ==
  /\ vsCall.op = "render"
  /\ \E i, j \in gaps : /\ scroller.allItems[i + 1] = "n"
                         /\ scroller.allItems[j + 1] = "e"
  /\ \E i \in gaps : \E lo, hi \in DOMAIN scroller.renderedItems : lo < i /\ i < hi

\* C24: within one render() invocation, every element whose index has left the
\* window is removed from the container before any element for a newly entered
\* index is created and inserted.
C24_RemovalBeforeInsertion ==
  vsCall.op = "render" =>
    \A j, k \in 1..Len(vsLog) :
      (vsLog[j].op = "appendChild" /\ vsLog[k].op = "removeChild") => k < j

\* The indices of the window, as computed from the scroller's scrollTop and
\* viewportHeight, for which the callback returns an element
windowElements == {i \in windowStart..windowEnd : returnsElement(i)}

\* C25 as stated: in every reachable state of a live VirtualScroller, and not
\* only right after render(), renderedItems holds exactly the indices of the
\* window computed from the current scrollTop, viewportHeight and buffer.
C25_AlwaysWindow ==
  ~destroyed => DOMAIN scroller.renderedItems = windowStart..windowEnd

\* One step of a live scroller: a render() pass leaves the window's indices,
\* any other operation leaves renderedItems as it is.
C25_Step ==
  ~destroyed' =>
    IF vsCall'.op \in {"render", "updateItems"}
    THEN DOMAIN scroller'.renderedItems = windowElements'
    ELSE scroller'.renderedItems = scroller.renderedItems

\* C25, amended: in every reachable state of a live VirtualScroller,
\* renderedItems holds exactly the indices of the window of the most recent
\* render() pass for which the callback returned an element: the constructor
\* and every later pass (a frame after a scroll event, updateItems) leave the
\* window computed from the scrollTop and viewportHeight the scroller holds at
\* that time, and a scroll event, updateViewport() or a resize leaves
\* renderedItems unchanged until the next pass.
C25_WindowOfLastRender ==
  /\ DOMAIN scroller.renderedItems = windowElements
  /\ [][C25_Step]_vars

\* A scroll event has moved the window of a live scroller and the render() it
\* scheduled has not run yet: renderedItems is still the window of the pass
\* before.
C25_Witness ==
  /\ ~destroyed
  /\ vsCall.op = "onScroll"
  /\ rafQueue = 1
  /\ windowElements # {}
  /\ DOMAIN scroller.renderedItems # windowElements

-----------------------------------------------------------------------------
(* Claims about the request tokens *)

\* C11: a container shows only what the request holding its current token
\* wrote: whatever order the responses of overlapping requests arrive in, no
\* response of an older request replaces what the newer request shows.
C11_OnlyLatestShown ==
  \A c \in ContainerIds :
    containers[c].html.kind # "empty" => containers[c].html.req = containers[c].token

\* C26: once a newer renderCommentsResults call was issued for a container, the
\* failure of an older call's fetch leaves the container's content as it is: the
\* container never shows the error message of a request that does not hold its
\* token.
C26_StaleFailureIgnored ==
  \A c \in ContainerIds :
    containers[c].html.kind = "error" => containers[c].html.req = containers[c].token

-----------------------------------------------------------------------------
(* Claims about deduplicateRequest *)

\* The promises made for key k whose work has not settled
unsettledFor(k, ps) == {p \in 1..Len(ps) : ps[p].key = k /\ ps[p].work = "pending"}

\* A deduplicateRequest call for a key whose work is unsettled gets the promise
\* of that work and does not invoke requestFn; no key has two unsettled works.
C12_Step ==
  /\ calls' # calls =>
       LET c == calls'[Len(calls')]
       IN  unsettledFor(c.key, promises) # {} =>
             /\ ~c.invoked
             /\ c.promise \in unsettledFor(c.key, promises)
             /\ promises' = promises
  /\ \A k \in RequestKeys : Cardinality(unsettledFor(k, promises')) <= 1

\* C12: while the work for key k is unsettled, every further
\* deduplicateRequest(k, fn) call returns the same promise and does not invoke
\* fn, so the work for a key runs at most once at a time.
C12_SharedWhileUnsettled == [][C12_Step]_vars

\* Two calls for one key got the same promise, the second without invoking
\* requestFn, while a call for the other key got another promise.
C12_Witness ==
  \E i, j, l \in 1..Len(calls) :
    /\ i < j
    /\ calls[i].key = calls[j].key
    /\ calls[i].promise = calls[j].promise
    /\ calls[i].invoked /\ ~calls[j].invoked
    /\ calls[l].key # calls[i].key /\ calls[l].invoked /\ ~calls[l].threw

\* The map holds only promises that have not settled and whose callback has not
\* run, so it is empty once every callback has run.
onlyUnsettledHeld ==
  \A k \in DOMAIN ongoingRequests :
    /\ promises[ongoingRequests[k]].key = k
    /\ promises[ongoingRequests[k]].state = "pending"
    /\ ~promises[ongoingRequests[k]].handled

\* A call for a key that has no entry invokes requestFn.
freshAfterSettle ==
  calls' # calls =>
    LET c == calls'[Len(calls')]
    IN  c.key \notin DOMAIN ongoingRequests => c.invoked

\* C13: once the work for a key has settled, with success or with failure, its
\* entry leaves the map and the promise every caller shares settles the same
\* way; the map holds only unsettled requests; and the next call for the key
\* invokes requestFn again.
C13_EntryRemovedOnSettle ==
  /\ []onlyUnsettledHeld
  /\ [][freshAfterSettle]_vars
  /\ \A p \in 1..MaxCalls :
       (p <= Len(promises) /\ promises[p].work # "pending")
         ~> (/\ p <= Len(promises)
             /\ promises[p].state = promises[p].work
             /\ promises[p].key \notin DOMAIN ongoingRequests
                  \/ ongoingRequests[promises[p].key] # p)

\* The work for a key failed, the two callers that shared its promise hold a
\* rejected promise, and a later call for the key invoked requestFn again.
C13_Witness ==
  \E i, j, l \in 1..Len(calls) :
    /\ i < j /\ j < l
    /\ calls[i].key = calls[j].key /\ calls[j].key = calls[l].key
    /\ calls[i].promise = calls[j].promise
    /\ calls[i].promise # 0
    /\ promises[calls[i].promise].state = "rejected"
    /\ calls[l].invoked /\ ~calls[l].threw
    /\ calls[l].promise # calls[i].promise

-----------------------------------------------------------------------------
(* Claims about the LRUCache *)

lruKeysOf(cache) == {cache[k].key : k \in 1..Len(cache)}

\* Every key of keys has in the Map after the value it had in the Map before
sameValues(keys, before, after) ==
  \A k \in keys : lruValue(after, k) = lruValue(before, k)

\* What C22 says of one call, lruCall' being the call and the unprimed
\* variables the cache as the call found it.
C22_Step ==
  LET c == lruCall'
      held == lruKeysOf(lruCache)
      now == lruKeysOf(lruCache')
  IN  /\ Len(lruCache') <= lruCapacity
      /\ Len(lruCache') = Cardinality(now)
      /\ (c.op = "put" /\ c.key \notin held /\ Len(lruCache) >= lruCapacity) =>
           /\ now = (held \ {Head(lruUses)}) \cup {c.key}
           /\ Head(lruUses) \in held
           /\ lruValue(lruCache', c.key) = c.value
           /\ sameValues(now \ {c.key}, lruCache, lruCache')
      /\ (c.op = "put" /\ c.key \notin held /\ Len(lruCache) < lruCapacity) =>
           /\ now = held \cup {c.key}
           /\ lruValue(lruCache', c.key) = c.value
           /\ sameValues(held, lruCache, lruCache')
      /\ (c.op = "put" /\ c.key \in held) =>
           /\ now = held
           /\ lruValue(lruCache', c.key) = c.value
           /\ sameValues(held \ {c.key}, lruCache, lruCache')
      /\ (c.op = "get" /\ c.key \notin held) =>
           /\ c.result = "null"
           /\ lruCache' = lruCache
      /\ (c.op = "get" /\ c.key \in held) =>
           /\ c.result = lruValue(lruCache, c.key)
           /\ now = held
           /\ sameValues(held, lruCache, lruCache')

\* C22: for an LRUCache of capacity c >= 1 and any sequence of get, put, delete
\* and clear, a put of a new key into a full cache evicts exactly the least
\* recently used key (a successful get and any put count as a use), the size
\* never exceeds c, a put of an existing key evicts nothing, and a get of an
\* absent key returns null and changes nothing.
C22_LruEviction == [][C22_Step]_vars

\* A put of a new key into a full cache of capacity 2 or more evicted one key
\* and kept the others.
C22_Witness ==
  /\ lruCall.op = "put"
  /\ lruCapacity >= 2
  /\ Len(lruCall.before) = lruCapacity
  /\ lruCall.key \notin lruKeysOf(lruCall.before)
  /\ lruCall.before[Len(lruCall.before)].key \in lruKeysOf(lruCache)
  /\ lruCall.before[1].key \notin lruKeysOf(lruCache)

-----------------------------------------------------------------------------
(* Claims about createBatchRequester *)

idsOf(c) == {dispatched[c].ids[k] : k \in 1..Len(dispatched[c].ids)}

\* The batchProcessorFn calls that were passed submission i
callsWith(i) == {c \in 1..Len(dispatched) : i \in idsOf(c)}

\* Where submission i is: 0 while it waits in the batch, else its call
placeOf(i) == IF callsWith(i) = {} THEN 0 ELSE CHOOSE c \in callsWith(i) : TRUE

\* Every submission is in the waiting batch or in one call, once
deliveredOnce ==
  /\ \A i \in 1..Len(submitted) :
       LET waiting == {k \in 1..Len(batch) : batch[k] = i}
           passed == {<<c, k>> \in (1..Len(dispatched)) \X (1..MaxItems + 1) :
                        k <= Len(dispatched[c].ids) /\ dispatched[c].ids[k] = i}
       IN  Cardinality(waiting) + Cardinality(passed) = 1

\* Submissions less than the delay apart are in one call, and every call was
\* passed its items in submission order
deliveredTogether ==
  /\ \A i \in 1..(Len(submitted) - 1) :
       submitted[i + 1].gap < DelayTicks => placeOf(i) = placeOf(i + 1)
  /\ \A c \in 1..Len(dispatched) :
       /\ \A k \in 1..(Len(dispatched[c].ids) - 1) :
            dispatched[c].ids[k] < dispatched[c].ids[k + 1]
       /\ dispatched[c].items =
            [k \in 1..Len(dispatched[c].ids) |-> submitted[dispatched[c].ids[k]].item]

\* An array of the batch's length gives each caller the element at its position
resolvedByPosition ==
  \A c \in 1..Len(dispatched) :
    dispatched[c].outcome = "array" =>
      \A k \in 1..Len(dispatched[c].ids) :
        submitted[dispatched[c].ids[k]].promise = ResolvedElement(c, k)

\* A failure rejects the promises of its batch, and only those
rejectedByBatch ==
  /\ \A c \in 1..Len(dispatched) :
       dispatched[c].outcome \in {"rejects", "throws"} =>
         \A i \in idsOf(c) : submitted[i].promise = Rejected(c)
  /\ \A i \in 1..Len(submitted) :
       submitted[i].promise.state = "rejected" =>
         /\ callsWith(i) # {}
         /\ dispatched[placeOf(i)].outcome \in {"rejects", "throws"}

\* C23: every item given to a requester made by createBatchRequester is passed
\* to batchProcessorFn, in one batch and once; items given less than the delay
\* apart are passed together in one call, in submission order; when the
\* processor returns an array of the batch's length each caller's promise
\* resolves with the element at its item's position; a failure of the processor
\* rejects every promise of its batch and of no other.
C23_BatchedOnce ==
  /\ [](deliveredOnce /\ deliveredTogether /\ resolvedByPosition /\ rejectedByBatch)
  /\ \A i \in 1..MaxItems : (Len(submitted) >= i) ~> (Len(submitted) >= i /\ callsWith(i) # {})

\* Two calls of batchProcessorFn were made: one with two items given less than
\* the delay apart that returned an array, one that failed.
C23_Witness ==
  \E c, d \in 1..Len(dispatched) :
    /\ Len(dispatched[c].ids) = 2
    /\ submitted[dispatched[c].ids[2]].gap \in 1..(DelayTicks - 1)
    /\ dispatched[c].outcome = "array"
    /\ dispatched[d].outcome = "rejects"

-----------------------------------------------------------------------------
(* Claims about renderPrompts() *)

latest == Len(renders)

\* C27: when renderPrompts() was called again before the fetch of an earlier
\* call had resolved, then once the fetches have resolved, in either order, the
\* list shows blocks built only from the latest call's filtered result, each
\* index at most once, and no spacer or block of the earlier call.
C27_OnlyLatestRendering ==
  (/\ latest >= 2
   /\ renders[latest].overlaps # {}
   /\ \A r \in 1..latest : renders[r].state # "fetching") =>
    /\ \A k \in 1..Len(promptList) :
         /\ promptList[k].kind \in {"block", "topSpacer", "bottomSpacer"} =>
              promptList[k].by = latest
         /\ promptList[k].kind = "block" =>
              /\ promptList[k].idx + 1 \in 1..Len(renders[latest].filteredPrompts)
              /\ promptList[k].prompt = renders[latest].filteredPrompts[promptList[k].idx + 1]
    /\ \A j, k \in 1..Len(promptList) :
         (promptList[j].kind = "block" /\ promptList[k].kind = "block"
          /\ promptList[j].idx = promptList[k].idx) => j = k

\* C28: after any number of renderPrompts() calls on the same list element, one
\* click on a rendered block dispatches exactly one event (openPromptModal,
\* prompt:edit or prompt:delete, by the target), and the prompt it carries is the
\* one the list shows at that index.
C28_OneEventPerClick ==
  clicked.block.kind = "block" =>
    /\ Len(clicked.events) = 1
    /\ clicked.events[1].prompt = clicked.block.prompt

-----------------------------------------------------------------------------
(* Claims about the documents search() returns *)

\* A token of the call's query matches a token of a scored field of document p.
tokenMatched(p) ==
  \E k \in 1..Len(callTokens) : \E f \in ScoredFields : fieldMatches(p, f, k)

\* The call's tokens, joined by spaces, are part of the lower-cased title,
\* description or content of document p.
phraseHeld(p) ==
  \E f \in {"title", "description", "content"} : holdsPhrase(p, f)

\* A search() call with at least one query token has returned.
returnedForQuery ==
  lastOp = "search" /\ ret.status = "returned" /\ Len(callTokens) > 0

-----------------------------------------------------------------------------
(* Claims about the flat-file endpoints *)

\* The records the data file holds
stored == readRecords(directory, inodes)

\* C29: when two create (POST) requests to a flat-file endpoint are processed
\* concurrently, both new records are in the data file once both requests have
\* completed, whatever the interleaving of the two read-modify-write sequences.
C29_NoLostWrite ==
  (\A r \in Requests : posts[r].pc = "done") =>
    \A r \in Requests : \E k \in 1..Len(stored) : stored[k] = r

====
